---------------------------- MODULE Spec2Model ----------------------------
(***************************************************************************)
(* A model of GitNexus' ingestion core:                                    *)
(*   - the KuzuDB adapter (src/src/core/kuzu/kuzu-adapter.ts, lines 1-200):*)
(*     the module-level handles kuzu/db/conn and the async functions       *)
(*     initKuzu, loadGraphToKuzu, executeQuery, getKuzuStats, closeKuzu,   *)
(*     one action per synchronous segment between two awaits;              *)
(*   - the Solidity extractor                                              *)
(*     (src/gitnexus/src/core/ingestion/solidity-parser.ts): stripComments,*)
(*     lineOf, findBlockEnd and extractSolidityArtifacts, as operators on  *)
(*     texts (sequences of one-character strings, indexed from 0 as in the *)
(*     source).                                                            *)
(***************************************************************************)
EXTENDS Integers, Sequences, FiniteSets, TLC

VARIABLES
    kuzu,       \* kuzu-adapter.ts:15  the dynamically imported module, or "null"
    db,         \* kuzu-adapter.ts:16  the Database handle, Null when absent
    conn,       \* kuzu-adapter.ts:17  the Connection handle, Null when absent
    task,       \* the calls of the adapter's exported functions that are in flight
    store,      \* the engine: per Database ever created, the rows of its two tables
    connClosed, \* the Connections that conn.close() has closed
    dbCreated,  \* how many Databases `new kuzu.Database` has created
    calls,      \* how many calls of the adapter's functions have been made
    closeCalled, \* whether closeKuzu has been called
    filePath,   \* the path handed to the Solidity extractor
    source,     \* the text handed to the Solidity extractor
    content,    \* the text with its comments stripped
    result,     \* what the extractor returned
    stage,      \* "input" before the call, "stripped" or "extracted" after it
    history,    \* the calls of the extractor made so far, with what they returned
    viewMode,   \* kuzu-adapter.ts:500  'onboarding', 'loading' or 'exploring'
    graph,      \* kuzu-adapter.ts:503  the graph on display (the number of the
                \* run that produced it), Null when none
    fileContents, \* kuzu-adapter.ts:504  the file contents on display, likewise
    progress,   \* kuzu-adapter.ts:530  the pipeline progress, NoProgress when null
    projectName, \* kuzu-adapter.ts:533  the name taken from the chosen file
    workerRef,  \* kuzu-adapter.ts:326  the hook's Worker, "null" when cleared
    apiRef,     \* kuzu-adapter.ts:327  the hook's Comlink remote, "null" when cleared
    worker,     \* the Worker the mount effect created: "running" or "terminated"
    mounted,    \* whether the component holding the app state and hook is mounted
    run,        \* the call of handleFileSelect made last
    timer,      \* whether the catch block's setTimeout callback is pending
    hookCall,   \* the call of a hook function made last
    runs,       \* how many calls of handleFileSelect have been made
    zip,        \* part_000:10  the archive's entries, in its iteration order
    promises,   \* part_000:12  the state of the promise of each processEntry call
    files,      \* part_000:11  the entries extractZip has pushed so far
    zipStage    \* where the call of extractZip stands

kuzuVars == <<kuzu, db, conn, task, store, connClosed, dbCreated, calls,
             closeCalled>>
solVars  == <<filePath, source, content, result, stage, history>>
appVars  == <<viewMode, graph, fileContents, progress, projectName, workerRef,
             apiRef, worker, mounted, run, timer, hookCall, runs>>
zipVars  == <<zip, promises, files, zipStage>>
vars     == <<kuzu, db, conn, task, store, connClosed, dbCreated, calls,
             closeCalled,
             filePath, source, content, result, stage, history,
             viewMode, graph, fileContents, progress, projectName, workerRef,
             apiRef, worker, mounted, run, timer, hookCall, runs,
             zip, promises, files, zipStage>>

-----------------------------------------------------------------------------
(* Bounds of the model *)

MaxCalls == 3
MaxDb == 2
MaxNodeId == 1
MaxLen == 5
MaxFrags == 3
MaxBodyFrags == 6
MaxParentFrags == 4
MaxCallFrags == 2

Null == 0

\* The calls in flight at once: a pipeline run's call and one made meanwhile.
Tasks == {1, 2}
DbIds == 1..MaxDb

\* A KnowledgeGraph, as far as the loader reads it: its nodes (unique by id) and
\* its relationships.
Graphs ==
    {[nodes |-> S, relationships |-> {p \in S \X S : p[1] < p[2]}] : S \in SUBSET (1..MaxNodeId)}

EmptyGraph == [nodes |-> {}, relationships |-> {}]

EmptyTables == [nodes |-> {}, edges |-> {}]

-----------------------------------------------------------------------------
(* The KuzuDB adapter: kuzu-adapter.ts, lines 14-200.                        *)
(* A call of an exported async function is a task; its pc names the promise   *)
(* it is awaiting.  One action is one synchronous segment of the function:    *)
(* from the resumption after an await to the next await (or the return).      *)
(* The engine's answers (an import, a query, a file operation succeeding or   *)
(* failing) are nondeterministic; an operation's effect on the engine is      *)
(* applied when the awaiting function resumes.                                *)
(* The fields nodeCopy, edgeCopy, duringLoad, readyAtCall, executed and       *)
(* dataAtExec of a task are history fields: they record what the call did;    *)
(* given is the graph argument as it was when the call was made, logged the   *)
(* messages the call has written to the console, returned and handles what    *)
(* initKuzu returned to the call, second whether an earlier loadGraphToKuzu    *)
(* had returned success on the connection that existed at the call, and       *)
(* storeAtReturn the rows of the store when the call returned success.        *)

\* { db, conn, kuzu } as initKuzu returns it (lines 23, 55).
NoHandles == [db |-> Null, conn |-> Null, kuzu |-> "null"]

IdleTask ==
    [op |-> "idle", pc |-> "idle", lconn |-> Null, lkuzu |-> "null",
     graph |-> EmptyGraph, given |-> EmptyGraph, outcome |-> "none", success |-> FALSE, count |-> 0,
     nodeCopy |-> "none", edgeCopy |-> "none", duringLoad |-> FALSE,
     readyAtCall |-> FALSE, executed |-> FALSE, dataAtExec |-> FALSE,
     logged |-> {}, returned |-> FALSE, handles |-> NoHandles, second |-> FALSE,
     storeAtReturn |-> EmptyTables]

NewTask(o) == [IdleTask EXCEPT !.op = o]

\* isKuzuReady()
isKuzuReady == conn # Null /\ db # Null

\* A query or file operation through connection c can succeed only on a live
\* connection; on a null handle the call throws a TypeError, on a closed one the
\* engine rejects.
Usable(c) == c # Null /\ c \notin connClosed

Outcomes(c) == IF Usable(c) THEN {TRUE, FALSE} ELSE {FALSE}

\* The store behind connection c holds loaded data.
HoldsData(c) == c # Null /\ store[c].nodes # {}

LoadInProgress(tk) == tk.op = "load" /\ tk.pc # "done"

SomeLoadInProgress == \E u \in Tasks : LoadInProgress(task[u])

\* The promise of the call settles.
Resolved(tk, ok, n) ==
    [tk EXCEPT !.pc = "done", !.outcome = "resolved", !.success = ok, !.count = n]

Rejected(tk) == [tk EXCEPT !.pc = "done", !.outcome = "rejected"]

\* LoadCatch, were the catch block to drop the graph it was given.
LoadCatch_ClearsGraph(tk) ==
    Resolved([tk EXCEPT !.graph = EmptyGraph, !.logged = @ \cup {"Bulk Load Failed"}],
             FALSE, 0)

\* loadGraphToKuzu's catch block (lines 113-117): { success: false, count: 0 }.
LoadCatch(tk) == Resolved([tk EXCEPT !.logged = @ \cup {"Bulk Load Failed"}], FALSE, 0)

\* What the caller of initKuzu does when initKuzu's promise settles: ok with the
\* handles {conn: c, kuzu: k} it returned, or rejected.
\*   initKuzu called directly: the call is over;
\*   loadGraphToKuzu (line 68, outside its try): destructures the handles, or rejects;
\*   executeQuery (line 126, outside its try): goes on to the query, or rejects.
AfterInit(tk, ok, c, k) ==
    LET got == [tk EXCEPT !.returned = TRUE,
                          !.handles = [db |-> db, conn |-> c, kuzu |-> k]]
    IN CASE tk.op = "init"  -> IF ok THEN Resolved(got, TRUE, 0) ELSE Rejected(tk)
         [] tk.op = "load"  -> IF ok THEN [got EXCEPT !.pc = "l_resume", !.lconn = c, !.lkuzu = k]
                                     ELSE Rejected(tk)
         [] tk.op = "query" -> IF ok THEN [got EXCEPT !.pc = "q_resume"] ELSE Rejected(tk)

\* initKuzu, lines 22-29: the early return when a connection exists, else the
\* dynamic import is awaited.
EnterInit(tk) ==
    IF conn # Null THEN AfterInit(tk, TRUE, conn, kuzu) ELSE [tk EXCEPT !.pc = "i_import"]

CallInitKuzu(t) ==
    /\ task[t].op = "idle"
    /\ calls < MaxCalls
    /\ calls' = calls + 1
    /\ UNCHANGED closeCalled
    /\ task' = [task EXCEPT ![t] = EnterInit(NewTask("init"))]
    /\ UNCHANGED <<kuzu, db, conn, store, connClosed, dbCreated>>

\* initKuzu, lines 29-36: the import settled; kuzu is set and kuzu.init() awaited.
InitImportDone(t) ==
    /\ task[t].pc = "i_import"
    /\ \E ok \in BOOLEAN :
        IF ok
        THEN /\ kuzu' = "module"
             /\ task' = [task EXCEPT ![t].pc = "i_wasm"]
        ELSE /\ kuzu' = kuzu
             /\ task' = [task EXCEPT ![t] = AfterInit(@, FALSE, conn, kuzu)]
    /\ UNCHANGED <<db, conn, store, connClosed, dbCreated>>
    /\ UNCHANGED <<calls, closeCalled>>

\* initKuzu, lines 36-47: kuzu.init() settled; the Database and the Connection
\* are created (either constructor may throw) and the node schema query awaited.
InitWasmDone(t) ==
    /\ task[t].pc = "i_wasm"
    /\ \/ \* kuzu.init() rejected, kuzu was nulled by closeKuzu, or new Database threw
          /\ task' = [task EXCEPT ![t] = AfterInit(@, FALSE, conn, kuzu)]
          /\ UNCHANGED <<db, conn, store, dbCreated>>
       \/ \* new Database succeeded, new Connection threw
          /\ kuzu # "null"
          /\ dbCreated < MaxDb
          /\ dbCreated' = dbCreated + 1
          /\ db' = dbCreated + 1
          /\ store' = [store EXCEPT ![dbCreated + 1] = EmptyTables]
          /\ task' = [task EXCEPT ![t] = AfterInit(@, FALSE, conn, kuzu)]
          /\ UNCHANGED conn
       \/ \* both succeeded
          /\ kuzu # "null"
          /\ dbCreated < MaxDb
          /\ dbCreated' = dbCreated + 1
          /\ db' = dbCreated + 1
          /\ conn' = dbCreated + 1
          /\ store' = [store EXCEPT ![dbCreated + 1] = EmptyTables]
          /\ task' = [task EXCEPT ![t].pc = "i_schema_node"]
    /\ UNCHANGED <<kuzu, connClosed>>
    /\ UNCHANGED <<calls, closeCalled>>

\* initKuzu, lines 47-54: the node schema query settled; on success the edge
\* schema query is awaited, on failure (or with conn nulled meanwhile) the inner
\* catch swallows the error and initKuzu returns the handles.
InitSchemaNodeDone(t) ==
    /\ task[t].pc = "i_schema_node"
    /\ \E ok \in BOOLEAN :
        task' = [task EXCEPT ![t] =
                    IF ok /\ conn # Null THEN [@ EXCEPT !.pc = "i_schema_edge"]
                                          ELSE AfterInit(@, TRUE, conn, kuzu)]
    /\ UNCHANGED <<kuzu, db, conn, store, connClosed, dbCreated>>
    /\ UNCHANGED <<calls, closeCalled>>

\* initKuzu, lines 48-54: the edge schema query settled either way.
InitSchemaEdgeDone(t) ==
    /\ task[t].pc = "i_schema_edge"
    /\ task' = [task EXCEPT ![t] = AfterInit(@, TRUE, conn, kuzu)]
    /\ UNCHANGED <<kuzu, db, conn, store, connClosed, dbCreated>>
    /\ UNCHANGED <<calls, closeCalled>>

\* An earlier loadGraphToKuzu has returned success on connection c, and its
\* caller still holds what it returned.
LoadedOn(c) ==
    /\ c # Null
    /\ \E u \in Tasks :
          /\ task[u].op = "load"
          /\ task[u].pc = "done"
          /\ task[u].success
          /\ task[u].lconn = c

\* loadGraphToKuzu(graph, fileContents), line 68: initKuzu is called and awaited.
CallLoadGraphToKuzu(t) ==
    /\ task[t].op = "idle"
    /\ calls < MaxCalls
    /\ calls' = calls + 1
    /\ UNCHANGED closeCalled
    /\ \E g \in Graphs :
        task' = [task EXCEPT ![t] =
                    EnterInit([NewTask("load") EXCEPT !.graph = g, !.given = g,
                                                      !.second = LoadedOn(conn)])]
    /\ UNCHANGED <<kuzu, db, conn, store, connClosed, dbCreated>>

\* loadGraphToKuzu, lines 70-80: the CSV serialization (which may throw), kuzu.FS
\* (a TypeError when the returned kuzu is null), then the first unlink is awaited.
LoadSerialize(t) ==
    /\ task[t].pc = "l_resume"
    /\ \E ok \in (IF task[t].lkuzu = "null" THEN {FALSE} ELSE {TRUE, FALSE}) :
        task' = [task EXCEPT ![t] =
                    IF ok THEN [@ EXCEPT !.pc = "l_unlink_nodes",
                                         !.logged = @ \cup {"Serializing"}]
                          ELSE LoadCatch([@ EXCEPT !.logged = @ \cup {"Serializing"}])]
    /\ UNCHANGED <<kuzu, db, conn, store, connClosed, dbCreated>>
    /\ UNCHANGED <<calls, closeCalled>>

\* loadGraphToKuzu, lines 80-84 and 108-111: an unlink settled; its error is
\* swallowed (try { await fs.unlink(..) } catch {}), and the next operation is
\* awaited; after the last cleanup the call returns { success: true, count }.
LoadUnlinkDone(t) ==
    /\ task[t].pc \in {"l_unlink_nodes", "l_unlink_edges", "l_cleanup_nodes", "l_cleanup_edges"}
    /\ task' = [task EXCEPT ![t] =
                  CASE @.pc = "l_unlink_nodes"  -> [@ EXCEPT !.pc = "l_unlink_edges"]
                    [] @.pc = "l_unlink_edges"  -> [@ EXCEPT !.pc = "l_write_nodes"]
                    [] @.pc = "l_cleanup_nodes" -> [@ EXCEPT !.pc = "l_cleanup_edges"]
                    [] @.pc = "l_cleanup_edges" ->
                          Resolved([@ EXCEPT !.storeAtReturn = store[task[t].lconn]],
                                   TRUE, @.count)]
    /\ UNCHANGED <<kuzu, db, conn, store, connClosed, dbCreated>>
    /\ UNCHANGED <<calls, closeCalled>>

\* loadGraphToKuzu, lines 84-85: writeFile(nodesPath) settled.
LoadWriteNodesDone(t) ==
    /\ task[t].pc = "l_write_nodes"
    /\ \E ok \in BOOLEAN :
        task' = [task EXCEPT ![t] =
                    IF ok THEN [@ EXCEPT !.pc = "l_write_edges"] ELSE LoadCatch(@)]
    /\ UNCHANGED <<kuzu, db, conn, store, connClosed, dbCreated>>
    /\ UNCHANGED <<calls, closeCalled>>

\* loadGraphToKuzu, lines 85-97: writeFile(edgesPath) settled; on success the
\* COPY of the node table is issued on the local conn (a TypeError when null).
LoadWriteEdgesDone(t) ==
    /\ task[t].pc = "l_write_edges"
    /\ \E ok \in BOOLEAN :
        task' = [task EXCEPT ![t] =
                    IF ~ok THEN LoadCatch(@)
                    ELSE IF @.lconn # Null
                    THEN [@ EXCEPT !.pc = "l_copy_nodes", !.nodeCopy = "issued",
                                   !.logged = @ \cup {"Executing COPY FROM"}]
                    ELSE LoadCatch([@ EXCEPT !.logged = @ \cup {"Executing COPY FROM"}])]
    /\ UNCHANGED <<kuzu, db, conn, store, connClosed, dbCreated>>
    /\ UNCHANGED <<calls, closeCalled>>

\* AfterNodeCopy with the node COPY's error swallowed, as the unlinks' are.
AfterNodeCopy_Swallowed(tk, ok) ==
    [tk EXCEPT !.pc = "l_copy_edges", !.nodeCopy = IF ok THEN "ok" ELSE "failed",
               !.edgeCopy = "issued"]

\* The task once the node COPY has settled: on success the COPY of the edge
\* table is issued, on failure control goes to the catch block.
AfterNodeCopy(tk, ok) ==
    IF ok THEN [tk EXCEPT !.pc = "l_copy_edges", !.nodeCopy = "ok", !.edgeCopy = "issued"]
          ELSE LoadCatch([tk EXCEPT !.nodeCopy = "failed"])

\* loadGraphToKuzu, lines 97-98: COPY CodeNode settled.  The engine rejects it
\* on a closed connection and on a duplicate primary key (schema: PRIMARY KEY (id)).
LoadCopyNodesDone(t) ==
    /\ task[t].pc = "l_copy_nodes"
    /\ LET c == task[t].lconn
           g == task[t].graph
           canLoad == Usable(c) /\ g.nodes \cap store[c].nodes = {}
       IN \E ok \in (IF canLoad THEN {TRUE, FALSE} ELSE {FALSE}) :
            /\ task' = [task EXCEPT ![t] = AfterNodeCopy(@, ok)]
            /\ store' = IF ok THEN [store EXCEPT ![c].nodes = @ \cup g.nodes] ELSE store
    /\ UNCHANGED <<kuzu, db, conn, connClosed, dbCreated>>
    /\ UNCHANGED <<calls, closeCalled>>

\* loadGraphToKuzu, lines 98-101: COPY CodeRelation settled; on success the
\* verification count query is issued.
LoadCopyEdgesDone(t) ==
    /\ task[t].pc = "l_copy_edges"
    /\ LET c == task[t].lconn
           g == task[t].graph
       IN \E ok \in Outcomes(c) :
            /\ task' = [task EXCEPT ![t] =
                          IF ok THEN [@ EXCEPT !.pc = "l_count", !.edgeCopy = "ok"]
                                ELSE LoadCatch([@ EXCEPT !.edgeCopy = "failed"])]
            /\ store' = IF ok THEN [store EXCEPT ![c].edges = @ \cup g.relationships]
                              ELSE store
    /\ UNCHANGED <<kuzu, db, conn, connClosed, dbCreated>>
    /\ UNCHANGED <<calls, closeCalled>>

\* loadGraphToKuzu, lines 101-102: the count query settled; getNext is awaited.
LoadCountDone(t) ==
    /\ task[t].pc = "l_count"
    /\ \E ok \in Outcomes(task[t].lconn) :
        task' = [task EXCEPT ![t] =
                    IF ok THEN [@ EXCEPT !.pc = "l_count_row"] ELSE LoadCatch(@)]
    /\ UNCHANGED <<kuzu, db, conn, store, connClosed, dbCreated>>
    /\ UNCHANGED <<calls, closeCalled>>

\* loadGraphToKuzu, lines 102-108: the count row settled; nodeCount is what the
\* store reports, and the cleanup unlinks follow.
LoadCountRowDone(t) ==
    /\ task[t].pc = "l_count_row"
    /\ \E ok \in BOOLEAN :
        task' = [task EXCEPT ![t] =
                    IF ok THEN [@ EXCEPT !.pc = "l_cleanup_nodes",
                                         !.count = Cardinality(store[task[t].lconn].nodes),
                                         !.logged = @ \cup {"Bulk Load Complete"}]
                          ELSE LoadCatch(@)]
    /\ UNCHANGED <<kuzu, db, conn, store, connClosed, dbCreated>>
    /\ UNCHANGED <<calls, closeCalled>>

\* The task of executeQuery once conn.query(cypher) is submitted (line 130):
\* the history fields record that the query went to the engine, whether the
\* store held loaded data and whether a load was in progress at that moment.
SubmitQuery(tk) ==
    [tk EXCEPT !.pc = "q_query", !.executed = TRUE,
               !.dataAtExec = HoldsData(conn), !.duringLoad = SomeLoadInProgress]

\* executeQuery(cypher), lines 123-130: with no connection initKuzu is called and
\* awaited; with one, conn.query(cypher) is submitted at once.
CallExecuteQuery(t) ==
    /\ task[t].op = "idle"
    /\ calls < MaxCalls
    /\ calls' = calls + 1
    /\ UNCHANGED closeCalled
    /\ LET tk == [NewTask("query") EXCEPT !.readyAtCall = isKuzuReady]
       IN task' = [task EXCEPT ![t] =
                     IF conn = Null THEN EnterInit(tk) ELSE SubmitQuery(tk)]
    /\ UNCHANGED <<kuzu, db, conn, store, connClosed, dbCreated>>

\* executeQuery, lines 129-130 after the awaited initKuzu: conn.query(cypher) on
\* the module's conn (a TypeError, caught and rethrown, when it is null).
QueryResume(t) ==
    /\ task[t].pc = "q_resume"
    /\ task' = [task EXCEPT ![t] = IF conn = Null THEN Rejected(@) ELSE SubmitQuery(@)]
    /\ UNCHANGED <<kuzu, db, conn, store, connClosed, dbCreated>>
    /\ UNCHANGED <<calls, closeCalled>>

\* executeQuery, lines 130-143: the query settled; the rows are collected
\* (hasNext/getNext, taken as one step) or the error is rethrown.
QueryDone(t) ==
    /\ task[t].pc = "q_query"
    /\ \E ok \in BOOLEAN :
        task' = [task EXCEPT ![t] = IF ok THEN Resolved(@, TRUE, 0) ELSE Rejected(@)]
    /\ UNCHANGED <<kuzu, db, conn, store, connClosed, dbCreated>>
    /\ UNCHANGED <<calls, closeCalled>>

\* getKuzuStats(), lines 149-155: zeros without a connection, else the node
\* count query is submitted.
CallGetKuzuStats(t) ==
    /\ task[t].op = "idle"
    /\ calls < MaxCalls
    /\ calls' = calls + 1
    /\ UNCHANGED closeCalled
    /\ task' = [task EXCEPT ![t] =
                  IF conn = Null
                  THEN Resolved(NewTask("stats"), TRUE, 0)
                  ELSE [NewTask("stats") EXCEPT !.pc = "s_nodes", !.executed = TRUE,
                                                !.duringLoad = SomeLoadInProgress]]
    /\ UNCHANGED <<kuzu, db, conn, store, connClosed, dbCreated>>

\* getKuzuStats, lines 155-156: the node count settled; the edge count query is
\* submitted on the module's conn; any error ends in the catch block's zeros.
StatsNodesDone(t) ==
    /\ task[t].pc = "s_nodes"
    /\ \E ok \in BOOLEAN :
        task' = [task EXCEPT ![t] =
                    IF ok /\ conn # Null
                    THEN [@ EXCEPT !.pc = "s_edges",
                                   !.duringLoad = @ \/ SomeLoadInProgress]
                    ELSE Resolved(@, TRUE, 0)]
    /\ UNCHANGED <<kuzu, db, conn, store, connClosed, dbCreated>>
    /\ UNCHANGED <<calls, closeCalled>>

\* getKuzuStats, lines 156-173: the edge count settled; the two rows are read
\* and the counts returned, or zeros from the catch block.
StatsEdgesDone(t) ==
    /\ task[t].pc = "s_edges"
    /\ \E ok \in BOOLEAN :
        task' = [task EXCEPT ![t] =
                    IF ok /\ conn # Null
                    THEN Resolved(@, TRUE, Cardinality(store[conn].nodes))
                    ELSE Resolved(@, TRUE, 0)]
    /\ UNCHANGED <<kuzu, db, conn, store, connClosed, dbCreated>>
    /\ UNCHANGED <<calls, closeCalled>>

\* closeKuzu(), lines 186-200: conn.close() is awaited when a connection exists,
\* else db.close() when a database exists, else kuzu is nulled.
CallCloseKuzu(t) ==
    /\ task[t].op = "idle"
    /\ calls < MaxCalls
    /\ calls' = calls + 1
    /\ closeCalled' = TRUE
    /\ IF conn # Null
       THEN /\ task' = [task EXCEPT ![t] = [NewTask("close") EXCEPT !.pc = "c_conn", !.lconn = conn]]
            /\ kuzu' = kuzu
       ELSE IF db # Null
       THEN /\ task' = [task EXCEPT ![t] = [NewTask("close") EXCEPT !.pc = "c_db"]]
            /\ kuzu' = kuzu
       ELSE /\ task' = [task EXCEPT ![t] = Resolved(NewTask("close"), TRUE, 0)]
            /\ kuzu' = "null"
    /\ UNCHANGED <<db, conn, store, connClosed, dbCreated>>

\* closeKuzu, lines 189-199: conn.close() settled (errors swallowed); conn is
\* nulled, then db.close() is awaited or kuzu nulled.
CloseConnDone(t) ==
    /\ task[t].pc = "c_conn"
    /\ connClosed' = connClosed \cup {task[t].lconn}
    /\ conn' = Null
    /\ IF db # Null
       THEN /\ task' = [task EXCEPT ![t].pc = "c_db"]
            /\ kuzu' = kuzu
       ELSE /\ task' = [task EXCEPT ![t] = Resolved(@, TRUE, 0)]
            /\ kuzu' = "null"
    /\ UNCHANGED <<db, store, dbCreated>>
    /\ UNCHANGED <<calls, closeCalled>>

\* closeKuzu, lines 195-199: db.close() settled; db and kuzu are nulled.
CloseDbDone(t) ==
    /\ task[t].pc = "c_db"
    /\ db' = Null
    /\ kuzu' = "null"
    /\ task' = [task EXCEPT ![t] = Resolved(@, TRUE, 0)]
    /\ UNCHANGED <<conn, store, connClosed, dbCreated>>
    /\ UNCHANGED <<calls, closeCalled>>

\* The caller has taken the settled promise's result.
Retire(t) ==
    /\ task[t].pc = "done"
    /\ task' = [task EXCEPT ![t] = IdleTask]
    /\ UNCHANGED <<kuzu, db, conn, store, connClosed, dbCreated>>
    /\ UNCHANGED <<calls, closeCalled>>

-----------------------------------------------------------------------------
NoText == <<>>

NoResult ==
    [definitions |-> <<>>, imports |-> <<>>, calls |-> <<>>, heritage |-> <<>>,
     seenDefs |-> {}, blockRegions |-> <<>>]

\* A call of handleFileSelect: its file, where it stands, the error it caught,
\* and the graph and file contents that were on display when it was made.
\* pc is "awaiting" while the awaited runPipelineInWorker is pending, "resolved"
\* after the try block ran to its end and "failed" after the catch block ran;
\* afterClear tells whether the Worker was already terminated at the call.
NoError == [isError |-> FALSE, message |-> ""]

NoRun ==
    [file |-> <<>>, pc |-> "none", error |-> NoError, afterClear |-> FALSE,
     graphBefore |-> Null, filesBefore |-> Null, explored |-> FALSE,
     lastResolved |-> 0]

\* progress === null; a progress record carries its phase, its detail and, for
\* the claims, the number of the run it reports on.
NoProgress == [phase |-> "null", detail |-> "", of |-> 0]

NoHookCall == [fn |-> "none", afterClear |-> FALSE, answer |-> "none"]

\* The app after its first render and the hook's mount effect: the state
\* defaults of lines 500-533, and the Worker and remote of lines 330-341.
AppAtRest ==
    /\ viewMode = "onboarding"
    /\ graph = Null
    /\ fileContents = Null
    /\ progress = NoProgress
    /\ projectName = <<>>
    /\ workerRef = "worker"
    /\ apiRef = "api"
    /\ worker = "running"
    /\ mounted = TRUE
    /\ run = NoRun
    /\ timer = FALSE
    /\ hookCall = NoHookCall
    /\ runs = 0

\* No call of extractZip has been made.
ZipAtRest ==
    /\ zip = <<>>
    /\ promises = <<>>
    /\ files = <<>>
    /\ zipStage = "idle"

\* The adapter after module load: lines 15-17.
Init ==
    /\ AppAtRest
    /\ ZipAtRest
    /\ kuzu = "null"
    /\ db = Null
    /\ conn = Null
    /\ task = [t \in Tasks |-> IdleTask]
    /\ store = [d \in DbIds |-> EmptyTables]
    /\ connClosed = {}
    /\ dbCreated = 0
    /\ calls = 0
    /\ closeCalled = FALSE
    /\ filePath = "a.sol"
    /\ source = NoText
    /\ content = NoText
    /\ result = NoResult
    /\ stage = "input"
    /\ history = <<>>

Next ==
    \E t \in Tasks :
        \/ CallInitKuzu(t) /\ UNCHANGED <<solVars, appVars, zipVars>>
        \/ InitImportDone(t) /\ UNCHANGED <<solVars, appVars, zipVars>>
        \/ InitWasmDone(t) /\ UNCHANGED <<solVars, appVars, zipVars>>
        \/ InitSchemaNodeDone(t) /\ UNCHANGED <<solVars, appVars, zipVars>>
        \/ InitSchemaEdgeDone(t) /\ UNCHANGED <<solVars, appVars, zipVars>>
        \/ CallLoadGraphToKuzu(t) /\ UNCHANGED <<solVars, appVars, zipVars>>
        \/ LoadSerialize(t) /\ UNCHANGED <<solVars, appVars, zipVars>>
        \/ LoadUnlinkDone(t) /\ UNCHANGED <<solVars, appVars, zipVars>>
        \/ LoadWriteNodesDone(t) /\ UNCHANGED <<solVars, appVars, zipVars>>
        \/ LoadWriteEdgesDone(t) /\ UNCHANGED <<solVars, appVars, zipVars>>
        \/ LoadCopyNodesDone(t) /\ UNCHANGED <<solVars, appVars, zipVars>>
        \/ LoadCopyEdgesDone(t) /\ UNCHANGED <<solVars, appVars, zipVars>>
        \/ LoadCountDone(t) /\ UNCHANGED <<solVars, appVars, zipVars>>
        \/ LoadCountRowDone(t) /\ UNCHANGED <<solVars, appVars, zipVars>>
        \/ CallExecuteQuery(t) /\ UNCHANGED <<solVars, appVars, zipVars>>
        \/ QueryResume(t) /\ UNCHANGED <<solVars, appVars, zipVars>>
        \/ QueryDone(t) /\ UNCHANGED <<solVars, appVars, zipVars>>
        \/ CallGetKuzuStats(t) /\ UNCHANGED <<solVars, appVars, zipVars>>
        \/ StatsNodesDone(t) /\ UNCHANGED <<solVars, appVars, zipVars>>
        \/ StatsEdgesDone(t) /\ UNCHANGED <<solVars, appVars, zipVars>>
        \/ CallCloseKuzu(t) /\ UNCHANGED <<solVars, appVars, zipVars>>
        \/ CloseConnDone(t) /\ UNCHANGED <<solVars, appVars, zipVars>>
        \/ CloseDbDone(t) /\ UNCHANGED <<solVars, appVars, zipVars>>
        \/ Retire(t) /\ UNCHANGED <<solVars, appVars, zipVars>>

Spec == Init /\ [][Next]_vars

-----------------------------------------------------------------------------
(* Claims about the adapter, checked under Spec. *)

\* C2: loadGraphToKuzu never rejects: a call that is over has resolved, and a
\* failed one resolved to { success: false, count: 0 }.
C2_LoadNeverRejects ==
    \A t \in Tasks :
        (task[t].op = "load" /\ task[t].pc = "done")
            => /\ task[t].outcome = "resolved"
               /\ (~task[t].success => task[t].count = 0)

\* C3: no query of executeQuery or getKuzuStats is submitted on the connection
\* while a loadGraphToKuzu call is in progress.
C3_NoQueryDuringLoad ==
    \A t \in Tasks : task[t].op \in {"query", "stats"} => ~task[t].duringLoad

\* C4: a query passed to executeQuery goes to the engine only when the store is
\* ready (initialized and holding loaded data), and a query submitted before
\* isKuzuReady() holds is not executed.
C4_QueryOnlyWhenReady ==
    \A t \in Tasks :
        (task[t].op = "query" /\ task[t].executed)
            => (task[t].readyAtCall /\ task[t].dataAtExec)

\* C10: within a loadGraphToKuzu call the edge COPY is issued only after the
\* node COPY has completed successfully; after a failed node COPY no edge COPY
\* is issued.
C10_NodeCopyBeforeEdgeCopy ==
    \A t \in Tasks :
        /\ task[t].edgeCopy # "none" => task[t].nodeCopy = "ok"
        /\ task[t].nodeCopy = "failed" => task[t].edgeCopy = "none"

\* C10's cases: one call whose edge COPY completed, another whose node COPY failed.
C10_Witness ==
    \E t, u \in Tasks :
        /\ task[t].edgeCopy = "ok"
        /\ task[u].nodeCopy = "failed"
        /\ task[u].pc = "done"

C12_CountMismatchOnlyLogged ==
    \A t \in Tasks :
        (task[t].op = "load" /\ task[t].edgeCopy = "ok" /\ task[t].pc = "done")
            => /\ task[t].outcome = "resolved"
               /\ task[t].success
               /\ task[t].count # Cardinality(task[t].given.nodes)
                     => "Count Mismatch" \in task[t].logged

\* C21: as long as closeKuzu has not been called, whatever the interleaving of
\* the calls of initKuzu (direct, or made by loadGraphToKuzu and executeQuery),
\* at most one Database with its Connection has been created and every caller
\* has received the same handles.
C21_OneDatabaseSameHandles ==
    ~closeCalled =>
        /\ dbCreated <= 1
        /\ \A t, u \in Tasks :
              (task[t].returned /\ task[u].returned)
                 => task[t].handles = task[u].handles

\* C22: in every state of the adapter a connection comes with a database and
\* the module (conn != null implies db != null and kuzu != null), so that
\* isKuzuReady() is true whenever a connection exists, and initKuzu returns
\* neither a null db nor a null kuzu.
C22_ConnectionImpliesDatabase ==
    /\ conn # Null => (db # Null /\ kuzu # "null")
    /\ conn # Null => isKuzuReady
    /\ \A t \in Tasks :
          task[t].returned =>
              (task[t].handles.db # Null /\ task[t].handles.kuzu # "null")

\* C23: a loadGraphToKuzu called when an earlier one has returned success on
\* the same connection, and returning success itself, leaves in the store exactly
\* the nodes and edges of its own graph, and its count is the number of nodes
\* of that graph.
C23_SecondLoadReplaces ==
    \A t \in Tasks :
        (/\ task[t].op = "load"
         /\ task[t].pc = "done"
         /\ task[t].success
         /\ task[t].second)
            => /\ task[t].storeAtReturn.nodes = task[t].given.nodes
               /\ task[t].storeAtReturn.edges = task[t].given.relationships
               /\ task[t].count = Cardinality(task[t].given.nodes)

-----------------------------------------------------------------------------
(* Texts.  A text is a sequence of one-character strings; as in the source,   *)
(* positions count from 0: At(s, i) is s[i] of the source, Slice(s, a, b) is  *)
(* s.slice(a, b).                                                             *)

At(s, i) == IF i >= 0 /\ i < Len(s) THEN s[i + 1] ELSE ""

Slice(s, a, b) == SubSeq(s, a + 1, b)

\* Whether the literal lit stands in s at position i.
StartsWith(s, i, lit) ==
    /\ i >= 0
    /\ i + Len(lit) <= Len(s)
    /\ SubSeq(s, i + 1, i + Len(lit)) = lit

Min(S) == CHOOSE x \in S : \A y \in S : x <= y

\* The line terminators of a JavaScript regular expression ('.' and '$' with
\* the m flag stop at them).
LineTerminators == {"\n", "\r"}

\* preserveNewlines applied to the characters of s from a to b - 1: every
\* character other than "\n" becomes a space (line 34).
BlankRange(s, a, b) ==
    [k \in 1..Len(s) |-> IF k > a /\ k <= b /\ s[k] # "\n" THEN " " ELSE s[k]]

\* The end (exclusive) of the first match of /\*[\s\S]*?\*/ that starts at i:
\* the lazy body stops at the first "*/" at or after i + 2.  -1: no match at i.
BlockCommentEnd(s, i) ==
    IF ~StartsWith(s, i, <<"/", "*">>) THEN -1
    ELSE LET closes == {j \in (i + 2)..(Len(s) - 2) : StartsWith(s, j, <<"*", "/">>)}
         IN IF closes = {} THEN -1 ELSE Min(closes) + 2

\* The end (exclusive) of the match of //.*$ (flags gm) that starts at i: '.'
\* runs to the next line terminator or the end of the text.  -1: no match at i.
LineCommentEnd(s, i) ==
    IF ~StartsWith(s, i, <<"/", "/">>) THEN -1
    ELSE LET stops == {j \in (i + 2)..(Len(s) - 1) : At(s, j) \in LineTerminators}
         IN IF stops = {} THEN Len(s) ELSE Min(stops)

\* source.replace(/\/\*[\s\S]*?\*\//g, preserveNewlines), scanning from `from`.
RECURSIVE ReplaceBlockComments(_, _)
ReplaceBlockComments(s, from) ==
    IF from >= Len(s) THEN s
    ELSE LET e == BlockCommentEnd(s, from)
         IN IF e < 0 THEN ReplaceBlockComments(s, from + 1)
                     ELSE ReplaceBlockComments(BlankRange(s, from, e), e)

\* source.replace(/\/\/.*$/gm, preserveNewlines), scanning from `from`.
RECURSIVE ReplaceLineComments(_, _)
ReplaceLineComments(s, from) ==
    IF from >= Len(s) THEN s
    ELSE LET e == LineCommentEnd(s, from)
         IN IF e < 0 THEN ReplaceLineComments(s, from + 1)
                     ELSE ReplaceLineComments(BlankRange(s, from, e), e)

\* stripComments (lines 36-39): block comments first, then line comments.
stripComments(s) == ReplaceLineComments(ReplaceBlockComments(s, 0), 0)

\* lineOf (lines 41-47): the number of "\n" before index.
lineOf(s, index) == Cardinality({i \in 0..(index - 1) : At(s, i) = "\n"})

-----------------------------------------------------------------------------
(* The regular expressions of extractSolidityArtifacts.  XMatchAt(s, i) is the *)
(* match of expression X that starts at position i of s, as the backtracking   *)
(* matcher finds it (each expression's greedy choices are forced, see the      *)
(* comments), or NoMatch.  A match records its index, its end (exclusive) and  *)
(* its groups.                                                                 *)

Lower == {"a", "b", "c", "d", "e", "f", "g", "h", "i", "j", "k", "l", "m",
          "n", "o", "p", "q", "r", "s", "t", "u", "v", "w", "x", "y", "z"}
Upper == {"A", "B", "C", "D", "E", "F", "G", "H", "I", "J", "K", "L", "M",
          "N", "O", "P", "Q", "R", "S", "T", "U", "V", "W", "X", "Y", "Z"}
Digit == {"0", "1", "2", "3", "4", "5", "6", "7", "8", "9"}

IdStart == Lower \cup Upper \cup {"_"}      \* [A-Za-z_]
WordChar == IdStart \cup Digit              \* \w, [A-Za-z0-9_]
Space == {" ", "\t", "\n", "\r", "\f"}      \* \s

\* \b at position i
WordBoundary(s, i) == (At(s, i - 1) \in WordChar) # (At(s, i) \in WordChar)

\* The first position at or after i whose character is not in C (a greedy C*).
RECURSIVE SkipWhile(_, _, _)
SkipWhile(s, i, C) == IF At(s, i) \in C THEN SkipWhile(s, i + 1, C) ELSE i

\* The first position at or after i whose character is in C, or Len(s).
RECURSIVE SkipUntil(_, _, _)
SkipUntil(s, i, C) ==
    IF i >= Len(s) \/ At(s, i) \in C THEN i ELSE SkipUntil(s, i + 1, C)

\* content.indexOf(ch, from)
indexOf(s, ch, from) ==
    LET j == SkipUntil(s, from, {ch}) IN IF j >= Len(s) THEN -1 ELSE j

NoMatch == [ok |-> FALSE]

KwFunction == <<"f", "u", "n", "c", "t", "i", "o", "n">>
KwModifier == <<"m", "o", "d", "i", "f", "i", "e", "r">>
KwConstructor == <<"c", "o", "n", "s", "t", "r", "u", "c", "t", "o", "r">>
KwVirtual == <<"v", "i", "r", "t", "u", "a", "l">>
KwOverride == <<"o", "v", "e", "r", "r", "i", "d", "e">>
KwPublic == <<"p", "u", "b", "l", "i", "c">>
KwExternal == <<"e", "x", "t", "e", "r", "n", "a", "l">>

\* CALL_KEYWORDS (lines 29-32)
CALL_KEYWORDS ==
    {<<"i", "f">>,
     <<"f", "o", "r">>,
     <<"w", "h", "i", "l", "e">>,
     <<"r", "e", "q", "u", "i", "r", "e">>,
     <<"a", "s", "s", "e", "r", "t">>,
     <<"r", "e", "v", "e", "r", "t">>,
     <<"e", "m", "i", "t">>,
     <<"r", "e", "t", "u", "r", "n">>,
     <<"n", "e", "w">>,
     <<"m", "a", "p", "p", "i", "n", "g">>,
     <<"p", "a", "y", "a", "b", "l", "e">>,
     <<"u", "n", "c", "h", "e", "c", "k", "e", "d">>,
     <<"d", "e", "l", "e", "t", "e">>}

\* /\b(public|external)\b/.test(modifiers)  (lines 154, 171)
HasVisibility(mods) ==
    \E p \in 0..(Len(mods) - 1) :
        /\ WordBoundary(mods, p)
        /\ \/ StartsWith(mods, p, KwPublic) /\ WordBoundary(mods, p + Len(KwPublic))
           \/ StartsWith(mods, p, KwExternal) /\ WordBoundary(mods, p + Len(KwExternal))

\* The tail  \s*\([^)]*\)\s*([^\{;]*)\{  of functionRe and constructorRe from
\* position c on: the parameter list ends at the first ")", and [^\{;]* stops
\* at the first "{" or ";", which must be "{".
SignatureTail(s, i, name, c) ==
    LET d == SkipWhile(s, c, Space)
    IN IF At(s, d) # "(" THEN NoMatch
       ELSE LET e == indexOf(s, ")", d + 1)
            IN IF e < 0 THEN NoMatch
               ELSE LET f == SkipWhile(s, e + 1, Space)
                        g == SkipUntil(s, f, {"{", ";"})
                    IN IF At(s, g) # "{" THEN NoMatch
                       ELSE [ok |-> TRUE, index |-> i, end |-> g + 1, name |-> name,
                             modifiers |-> Slice(s, f, g)]

\* functionRe (line 147):
\*   \bfunction\s+([A-Za-z_][A-Za-z0-9_]*)\s*\([^)]*\)\s*([^\{;]*)\{
FunctionMatchAt(s, i) ==
    IF ~(WordBoundary(s, i) /\ StartsWith(s, i, KwFunction)) THEN NoMatch
    ELSE LET a == i + Len(KwFunction)
             b == SkipWhile(s, a, Space)
         IN IF b = a \/ At(s, b) \notin IdStart THEN NoMatch
            ELSE LET c == SkipWhile(s, b, WordChar)
                 IN SignatureTail(s, i, Slice(s, b, c), c)

\* constructorRe (line 164):  \bconstructor\s*\([^)]*\)\s*([^\{;]*)\{
ConstructorMatchAt(s, i) ==
    IF ~(WordBoundary(s, i) /\ StartsWith(s, i, KwConstructor)) THEN NoMatch
    ELSE SignatureTail(s, i, KwConstructor, i + Len(KwConstructor))

\* modifierRe (line 132):
\*   \bmodifier\s+([A-Za-z_][A-Za-z0-9_]*)\s*\([^)]*\)\s*(?:virtual\s*)?
\*   (?:override\s*(?:\([^)]*\))?\s*)?\{
\* Each optional group is taken when its text is there: leaving it out would
\* put the "{" on a letter or on "(".
ModifierMatchAt(s, i) ==
    IF ~(WordBoundary(s, i) /\ StartsWith(s, i, KwModifier)) THEN NoMatch
    ELSE LET a == i + Len(KwModifier)
             b == SkipWhile(s, a, Space)
         IN IF b = a \/ At(s, b) \notin IdStart THEN NoMatch
            ELSE LET c == SkipWhile(s, b, WordChar)
                     d == SkipWhile(s, c, Space)
                     e == indexOf(s, ")", d + 1)
                     p0 == SkipWhile(s, e + 1, Space)
                     p1 == IF StartsWith(s, p0, KwVirtual)
                           THEN SkipWhile(s, p0 + Len(KwVirtual), Space) ELSE p0
                     q == SkipWhile(s, p1 + Len(KwOverride), Space)
                     r == indexOf(s, ")", q + 1)
                     p2 == IF ~StartsWith(s, p1, KwOverride) THEN p1
                           ELSE IF At(s, q) = "(" /\ r >= 0
                                THEN SkipWhile(s, r + 1, Space) ELSE q
                 IN IF At(s, d) # "(" \/ e < 0 \/ At(s, p2) # "{" THEN NoMatch
                    ELSE [ok |-> TRUE, index |-> i, end |-> p2 + 1,
                          name |-> Slice(s, b, c), modifiers |-> <<>>]

\* callRe (line 181):  \b([A-Za-z_][A-Za-z0-9_]*)\s*\(
CallMatchAt(s, i) ==
    IF ~(WordBoundary(s, i) /\ At(s, i) \in IdStart) THEN NoMatch
    ELSE LET c == SkipWhile(s, i, WordChar)
             d == SkipWhile(s, c, Space)
         IN IF At(s, d) # "(" THEN NoMatch
            ELSE [ok |-> TRUE, index |-> i, end |-> d + 1, name |-> Slice(s, i, c)]

KwStruct == <<"s", "t", "r", "u", "c", "t">>
KwEnum == <<"e", "n", "u", "m">>
KwEvent == <<"e", "v", "e", "n", "t">>
KwAbstract == <<"a", "b", "s", "t", "r", "a", "c", "t">>
KwContract == <<"c", "o", "n", "t", "r", "a", "c", "t">>
KwInterface == <<"i", "n", "t", "e", "r", "f", "a", "c", "e">>
KwLibrary == <<"l", "i", "b", "r", "a", "r", "y">>
KwImport == <<"i", "m", "p", "o", "r", "t">>
KwFrom == <<"f", "r", "o", "m">>
KwIs == <<"i", "s">>

Quotes == {"\"", "'"}

\* structRe, enumRe, eventRe (lines 117, 122, 127):
\*   \b<keyword>\s+([A-Za-z_][A-Za-z0-9_]*)\b
KeywordNameMatchAt(s, i, kw) ==
    IF ~(WordBoundary(s, i) /\ StartsWith(s, i, kw)) THEN NoMatch
    ELSE LET a == i + Len(kw)
             b == SkipWhile(s, a, Space)
         IN IF b = a \/ At(s, b) \notin IdStart THEN NoMatch
            ELSE LET c == SkipWhile(s, b, WordChar)
                 IN [ok |-> TRUE, index |-> i, end |-> c, name |-> Slice(s, b, c)]

\* The end of the kind group (abstract\s+contract|contract|interface|library)
\* at position i, with the kind; the alternatives are tried in order.
ContractKindAt(s, i) ==
    LET a == SkipWhile(s, i + Len(KwAbstract), Space)
    IN IF /\ StartsWith(s, i, KwAbstract)
          /\ a > i + Len(KwAbstract)
          /\ StartsWith(s, a, KwContract)
       THEN [ok |-> TRUE, kind |-> "abstract contract", end |-> a + Len(KwContract)]
       ELSE IF StartsWith(s, i, KwContract)
       THEN [ok |-> TRUE, kind |-> "contract", end |-> i + Len(KwContract)]
       ELSE IF StartsWith(s, i, KwInterface)
       THEN [ok |-> TRUE, kind |-> "interface", end |-> i + Len(KwInterface)]
       ELSE IF StartsWith(s, i, KwLibrary)
       THEN [ok |-> TRUE, kind |-> "library", end |-> i + Len(KwLibrary)]
       ELSE NoMatch

\* contractLikeRe (line 97):
\*   \b(abstract\s+contract|contract|interface|library)\s+([A-Za-z_][A-Za-z0-9_]*)\b([^\{;]*)
ContractMatchAt(s, i) ==
    IF ~WordBoundary(s, i) THEN NoMatch
    ELSE LET k == ContractKindAt(s, i)
         IN IF ~k.ok THEN NoMatch
            ELSE LET b == SkipWhile(s, k.end, Space)
                 IN IF b = k.end \/ At(s, b) \notin IdStart THEN NoMatch
                    ELSE LET c == SkipWhile(s, b, WordChar)
                             g == SkipUntil(s, c, {"{", ";"})
                         IN [ok |-> TRUE, index |-> i, end |-> g, kind |-> k.kind,
                             name |-> Slice(s, b, c), suffix |-> Slice(s, c, g)]

\* The rest  ["']([^"']+)["']\s*;  of importRe at position q, with the path.
ImportPathAt(s, q) ==
    IF At(s, q) \notin Quotes THEN NoMatch
    ELSE LET r == SkipUntil(s, q + 1, Quotes)
             e == SkipWhile(s, r + 1, Space)
         IN IF r = q + 1 \/ r >= Len(s) \/ At(s, e) # ";" THEN NoMatch
            ELSE [ok |-> TRUE, end |-> e + 1, path |-> Slice(s, q + 1, r)]

\* importRe (line 92):  \bimport\s+(?:[^;]*?from\s+)?["']([^"']+)["']\s*;
\* The optional group is tried first, its lazy [^;]*? growing to the first
\* "from" after which the rest matches; then the expression without the group.
ImportMatchAt(s, i) ==
    IF ~(WordBoundary(s, i) /\ StartsWith(s, i, KwImport)) THEN NoMatch
    ELSE LET a == i + Len(KwImport)
             b == SkipWhile(s, a, Space)
             lim == SkipUntil(s, a + 1, {";"})
             AfterFrom(k) == SkipWhile(s, k + Len(KwFrom), Space)
             froms == {k \in (a + 1)..lim :
                          /\ StartsWith(s, k, KwFrom)
                          /\ AfterFrom(k) > k + Len(KwFrom)
                          /\ ImportPathAt(s, AfterFrom(k)).ok}
             rest == IF froms # {} THEN ImportPathAt(s, AfterFrom(Min(froms)))
                                   ELSE ImportPathAt(s, b)
         IN IF b = a \/ ~rest.ok THEN NoMatch
            ELSE [ok |-> TRUE, index |-> i, end |-> rest.end, path |-> rest.path]

\* matchAll with a global expression: the matches in order, each search
\* starting where the previous match ended.  cand[i] is the match at i.
RECURSIVE ScanMatches(_, _, _)
ScanMatches(cand, i, n) ==
    IF i >= n THEN <<>>
    ELSE IF cand[i].ok THEN <<cand[i]>> \o ScanMatches(cand, cand[i].end, n)
    ELSE ScanMatches(cand, i + 1, n)

FunctionMatches(s) ==
    ScanMatches([i \in 0..(Len(s) - 1) |-> FunctionMatchAt(s, i)], 0, Len(s))

ModifierMatches(s) ==
    ScanMatches([i \in 0..(Len(s) - 1) |-> ModifierMatchAt(s, i)], 0, Len(s))

ConstructorMatches(s) ==
    ScanMatches([i \in 0..(Len(s) - 1) |-> ConstructorMatchAt(s, i)], 0, Len(s))

CallMatches(s) ==
    ScanMatches([i \in 0..(Len(s) - 1) |-> CallMatchAt(s, i)], 0, Len(s))

StructMatches(s) ==
    ScanMatches([i \in 0..(Len(s) - 1) |-> KeywordNameMatchAt(s, i, KwStruct)], 0, Len(s))

EnumMatches(s) ==
    ScanMatches([i \in 0..(Len(s) - 1) |-> KeywordNameMatchAt(s, i, KwEnum)], 0, Len(s))

EventMatches(s) ==
    ScanMatches([i \in 0..(Len(s) - 1) |-> KeywordNameMatchAt(s, i, KwEvent)], 0, Len(s))

ContractMatches(s) ==
    ScanMatches([i \in 0..(Len(s) - 1) |-> ContractMatchAt(s, i)], 0, Len(s))

ImportMatches(s) ==
    ScanMatches([i \in 0..(Len(s) - 1) |-> ImportMatchAt(s, i)], 0, Len(s))

-----------------------------------------------------------------------------
(* extractSolidityArtifacts (lines 69-193). *)

\* findBlockEnd (lines 56-67): the loop from position i on with the depth so far.
RECURSIVE FindBlockEndFrom(_, _, _)
FindBlockEndFrom(s, i, depth) ==
    IF i >= Len(s) THEN Len(s) - 1
    ELSE IF At(s, i) = "{" THEN FindBlockEndFrom(s, i + 1, depth + 1)
    ELSE IF At(s, i) = "}"
         THEN IF depth - 1 = 0 THEN i ELSE FindBlockEndFrom(s, i + 1, depth - 1)
    ELSE FindBlockEndFrom(s, i + 1, depth)

findBlockEnd(s, openBraceIndex) == FindBlockEndFrom(s, openBraceIndex, 0)

\* generateId(label, key) of lib/utils.js, which is not among the sources: an
\* injective pairing of the label and the key.
generateId(label, key) == <<label, key>>

\* `${filePath}:${name}`: a name holds no ":", so the pair determines the string.
PathKey(path, name) == <<path, name>>

\* The File id, generateId('File', filePath), which extractSolidityFeatures
\* gives every call as its sourceId (part_004, line 148).
FileSourceId(path) == generateId("File", path)

\* The sourceId of a block region, were it the File id of the older extractor.
MethodSourceId_FileId(path, name) == generateId("File", path)

\* The sourceId of a block region (lines 141, 158, 175).
MethodSourceId(path, name) == generateId("Method", PathKey(path, name))

\* openBrace and closeBrace of a definition that starts at `start`
\* (lines 136-137, 152-153, 169-170).
OpenBrace(s, start) == indexOf(s, "{", start)

CloseBrace(s, start) ==
    LET openBrace == OpenBrace(s, start)
    IN IF openBrace >= 0 THEN findBlockEnd(s, openBrace) ELSE start

\* The definition a match of a body-carrying construct asks addDef to add:
\* label 'Method', the end at the closing brace.
MethodItem(s, m, exported) ==
    [label |-> "Method", name |-> m.name, startIdx |-> m.index,
     isExported |-> exported, endIdx |-> CloseBrace(s, m.index)]

\* The block region pushed for a match (lines 139-144, 156-161, 173-178).
Region(s, path, m) ==
    [name |-> m.name, sourceId |-> MethodSourceId(path, m.name),
     start |-> OpenBrace(s, m.index), end |-> CloseBrace(s, m.index)]

\* addDef (lines 79-90) applied to the items in order; acc holds the
\* definitions and seenDefs so far.
RECURSIVE AddDefs(_, _, _)
AddDefs(s, acc, items) ==
    IF items = <<>> THEN acc
    ELSE LET it == Head(items)
             key == <<it.label, it.name, it.startIdx>>
         IN IF key \in acc.seenDefs THEN AddDefs(s, acc, Tail(items))
            ELSE AddDefs(s,
                   [definitions |-> Append(acc.definitions,
                        [label |-> it.label, name |-> it.name,
                         startLine |-> lineOf(s, it.startIdx),
                         endLine |-> lineOf(s, it.endIdx),
                         isExported |-> it.isExported]),
                    seenDefs |-> acc.seenDefs \cup {key}],
                   Tail(items))

\* RegionCalls without the two exclusions of lines 187-188.
RegionCalls_Unfiltered(s, region) ==
    IF region.start < 0 \/ region.end <= region.start THEN <<>>
    ELSE LET body == Slice(s, region.start, region.end + 1)
             all == CallMatches(body)
         IN [k \in 1..Len(all) |->
                [calledName |-> all[k].name, sourceId |-> region.sourceId,
                 site |-> region.start + all[k].index]]

\* The inner loop of lines 182-191 for one region: the call records of its
\* body.  A record's site, the position of the call in content, is not a field
\* of the source's record; it is kept for the claims.
RegionCalls(s, region) ==
    IF region.start < 0 \/ region.end <= region.start THEN <<>>
    ELSE LET body == Slice(s, region.start, region.end + 1)
             Kept(m) == m.name \notin CALL_KEYWORDS /\ m.name # region.name
             kept == SelectSeq(CallMatches(body), Kept)
         IN [k \in 1..Len(kept) |->
                [calledName |-> kept[k].name, sourceId |-> region.sourceId,
                 site |-> region.start + kept[k].index]]

\* The loop of lines 182-191 over the block regions.
RECURSIVE AllCalls(_, _)
AllCalls(s, regions) ==
    IF regions = <<>> THEN <<>>
    ELSE RegionCalls(s, Head(regions)) \o AllCalls(s, Tail(regions))

MapSeq(seq, Op(_)) == [k \in 1..Len(seq) |-> Op(seq[k])]

\* The body-carrying matches in the order of the passes: modifiers (132-145),
\* functions (147-162), constructors (164-179).
BodyMatches(s) == ModifierMatches(s) \o FunctionMatches(s) \o ConstructorMatches(s)

\* blockRegions after the three passes.
BlockRegions(s, path) ==
    LET R(m) == Region(s, path, m) IN MapSeq(BodyMatches(s), R)

\* The items the three passes hand to addDef.
MethodItems(s) ==
    LET Mod(m) == MethodItem(s, m, TRUE)
        Fun(m) == MethodItem(s, m, HasVisibility(m.modifiers))
    IN MapSeq(ModifierMatches(s), Mod) \o MapSeq(FunctionMatches(s), Fun)
         \o MapSeq(ConstructorMatches(s), Fun)

\* The label addDef gets for a contract-like kind (lines 104-106).
KindLabel(kind) ==
    IF kind = "interface" THEN "Interface"
    ELSE IF kind = "library" THEN "Module"
    ELSE "Class"

PlainItem(label, m) ==
    [label |-> label, name |-> m.name, startIdx |-> m.index,
     isExported |-> TRUE, endIdx |-> m.index]

\* str.split(','): the pieces of s between the commas.
RECURSIVE SplitComma(_)
SplitComma(s) ==
    LET j == SkipUntil(s, 0, {","})
    IN IF j >= Len(s) THEN <<s>>
       ELSE <<Slice(s, 0, j)>> \o SplitComma(Slice(s, j + 1, Len(s)))

\* str.trim()
RECURSIVE TrimEnd(_)
TrimEnd(s) ==
    IF s # <<>> /\ s[Len(s)] \in Space THEN TrimEnd(Slice(s, 0, Len(s) - 1)) ELSE s

Trim(s) == TrimEnd(Slice(s, SkipWhile(s, 0, Space), Len(s)))

\* parent.split(/\s+/)[0]: the text before the first white space.
FirstToken(s) == Slice(s, 0, SkipUntil(s, 0, Space))

\* suffix.match(/\bis\s+([^\{;]+)/) (line 108): group 1 of the first match, or
\* the empty text.  The suffix holds no "{" and no ";", so the group runs to
\* its end; when only white space follows "is", the group is white space and
\* yields no parent.
IsClause(suffix) ==
    LET starts == {p \in 0..(Len(suffix) - 1) :
                      /\ WordBoundary(suffix, p)
                      /\ StartsWith(suffix, p, KwIs)
                      /\ At(suffix, p + Len(KwIs)) \in Space
                      /\ Len(suffix) > p + Len(KwIs) + 1}
    IN IF starts = {} THEN <<>>
       ELSE Slice(suffix, SkipWhile(suffix, Min(starts) + Len(KwIs), Space), Len(suffix))

\* The heritage records of one contract-like match (lines 108-114).
HeritageOf(m) ==
    LET NonEmpty(x) == x # <<>>
        parents == SelectSeq(MapSeq(SplitComma(IsClause(m.suffix)), Trim), NonEmpty)
    IN [k \in 1..Len(parents) |->
           [className |-> m.name, parentName |-> FirstToken(parents[k]),
            kind |-> "extends"]]

RECURSIVE AllHeritage(_)
AllHeritage(ms) ==
    IF ms = <<>> THEN <<>> ELSE HeritageOf(Head(ms)) \o AllHeritage(Tail(ms))

\* All items handed to addDef, in the order of the passes (lines 97-179).
DefItems(s) ==
    LET Con(m) == PlainItem(KindLabel(m.kind), m)
        Str(m) == PlainItem("Struct", m)
        Enu(m) == PlainItem("Enum", m)
        Eve(m) == PlainItem("CodeElement", m)
    IN MapSeq(ContractMatches(s), Con) \o MapSeq(StructMatches(s), Str)
         \o MapSeq(EnumMatches(s), Enu) \o MapSeq(EventMatches(s), Eve)
         \o MethodItems(s)

\* seenDefs, were it a Set of the module that outlives the call.
SeenDefsAtCall_Kept == UNION {history[k].result.seenDefs : k \in 1..Len(history)}

\* const seenDefs = new Set<string>()  (line 76): empty at every call.
SeenDefsAtCall == {}

\* extractSolidityArtifacts(filePath, source): the result, with the block
\* regions and seenDefs it was computed from (locals of the function, kept for
\* the claims).
extractSolidityArtifacts(path, src) ==
    LET c == stripComments(src)
        defs == AddDefs(c, [definitions |-> <<>>, seenDefs |-> SeenDefsAtCall], DefItems(c))
        regions == BlockRegions(c, path)
        Path(m) == m.path
    IN [definitions |-> defs.definitions,
        imports |-> MapSeq(ImportMatches(c), Path),
        calls |-> AllCalls(c, regions),
        heritage |-> AllHeritage(ContractMatches(c)),
        seenDefs |-> defs.seenDefs,
        blockRegions |-> regions]

-----------------------------------------------------------------------------
(* stripComments on its own: every text over a small alphabet, then the call. *)

StripAlphabet == {"/", "*", "\n", "a"}

TextsOver(alphabet, n) == UNION {[1..k -> alphabet] : k \in 0..n}

AdapterAtRest ==
    /\ kuzu = "null"
    /\ db = Null
    /\ conn = Null
    /\ task = [t \in Tasks |-> IdleTask]
    /\ store = [d \in DbIds |-> EmptyTables]
    /\ connClosed = {}
    /\ dbCreated = 0
    /\ calls = 0
    /\ closeCalled = FALSE

InitStrip ==
    /\ AdapterAtRest
    /\ AppAtRest
    /\ ZipAtRest
    /\ filePath = "a.sol"
    /\ source \in TextsOver(StripAlphabet, MaxLen)
    /\ content = NoText
    /\ result = NoResult
    /\ stage = "input"
    /\ history = <<>>

\* const content = stripComments(source)  (line 70)
StripComments ==
    /\ stage = "input"
    /\ content' = stripComments(source)
    /\ stage' = "stripped"
    /\ UNCHANGED <<filePath, source, result, history>>
    /\ UNCHANGED <<kuzuVars, appVars, zipVars>>

NextStrip == StripComments

SpecStrip == InitStrip /\ [][NextStrip]_vars

(* What a comment is, for the claims: the usual single left-to-right scan, in  *)
(* which "//" opens a comment that runs to the end of its line and "/*" one    *)
(* that runs through the next "*/", or to the end of the text when there is    *)
(* none.  CommentPositions(s) is the set of positions inside a comment.        *)
RECURSIVE ScanComments(_, _, _)
ScanComments(s, i, mode) ==
    IF i >= Len(s) THEN {}
    ELSE CASE mode = "code" ->
                IF StartsWith(s, i, <<"/", "/">>) THEN {i, i + 1} \cup ScanComments(s, i + 2, "line")
                ELSE IF StartsWith(s, i, <<"/", "*">>) THEN {i, i + 1} \cup ScanComments(s, i + 2, "block")
                ELSE ScanComments(s, i + 1, "code")
           [] mode = "line" ->
                IF At(s, i) \in LineTerminators THEN ScanComments(s, i + 1, "code")
                ELSE {i} \cup ScanComments(s, i + 1, "line")
           [] mode = "block" ->
                IF StartsWith(s, i, <<"*", "/">>) THEN {i, i + 1} \cup ScanComments(s, i + 2, "code")
                ELSE {i} \cup ScanComments(s, i + 1, "block")

CommentPositions(s) == ScanComments(s, 0, "code")

\* C6: stripComments(source) has the length of source, a newline exactly where
\* source has one, and a space at every non-newline position inside a block or
\* line comment.
C6_SameShapeCommentsBlanked ==
    stage = "stripped" =>
        /\ Len(content) = Len(source)
        /\ \A i \in 0..(Len(source) - 1) :
              /\ (At(content, i) = "\n") <=> (At(source, i) = "\n")
              /\ (i \in CommentPositions(source) /\ At(source, i) # "\n")
                    => At(content, i) = " "

\* C7: stripComments is total, and after a "/*" with no later "*/" every
\* non-newline character of the text, from that "/*" on, is blanked.
C7_UnterminatedBlockRunsToEnd ==
    stage = "stripped" =>
        /\ Len(content) = Len(source)
        /\ \A i \in 0..(Len(source) - 2) :
              (/\ StartsWith(source, i, <<"/", "*">>)
               /\ \A j \in (i + 2)..(Len(source) - 2) : ~StartsWith(source, j, <<"*", "/">>))
                 => \A k \in i..(Len(source) - 1) :
                        At(source, k) # "\n" => At(content, k) = " "

-----------------------------------------------------------------------------
(* extractSolidityArtifacts on texts put together from a few pieces of         *)
(* Solidity: headers of definitions with an opening brace, a closing brace, a  *)
(* call, a newline and the characters of comment delimiters.                   *)

SolFragments ==
    {<<"f", "u", "n", "c", "t", "i", "o", "n", " ", "f", "(", ")", "{">>,
     <<"f", "u", "n", "c", "t", "i", "o", "n", " ", "g", "(", ")", "{">>,
     <<"m", "o", "d", "i", "f", "i", "e", "r", " ", "f", "(", ")", "{">>,
     <<"c", "o", "n", "s", "t", "r", "u", "c", "t", "o", "r", "(", ")", "{">>,
     <<"}">>,
     <<"h", "(">>,
     <<"\n">>,
     <<"/", "*">>,
     <<"*", "/">>,
     <<"/">>}

RECURSIVE Concat(_)
Concat(pieces) == IF pieces = <<>> THEN <<>> ELSE Head(pieces) \o Concat(Tail(pieces))

TextsFrom(fragments, n) ==
    {Concat(ps) : ps \in UNION {[1..k -> fragments] : k \in 0..n}}

InitSol ==
    /\ AdapterAtRest
    /\ AppAtRest
    /\ ZipAtRest
    /\ filePath = "a.sol"
    /\ source \in TextsFrom(SolFragments, MaxFrags)
    /\ content = NoText
    /\ result = NoResult
    /\ stage = "input"
    /\ history = <<>>

\* The call extractSolidityArtifacts(filePath, source).
Extract ==
    /\ stage = "input"
    /\ content' = stripComments(source)
    /\ result' = extractSolidityArtifacts(filePath, source)
    /\ history' = Append(history, [filePath |-> filePath, source |-> source,
                                   result |-> result'])
    /\ stage' = "extracted"
    /\ UNCHANGED <<filePath, source>>
    /\ UNCHANGED <<kuzuVars, appVars, zipVars>>

NextSol == Extract

SpecSol == InitSol /\ [][NextSol]_vars

\* The same call on one function whose body is put together from the
\* characters of comments, a newline, a closing brace and a call.
BodyFragments ==
    {<<"/">>, <<"/", "*">>, <<"*", "/">>, <<"\n">>, <<"}">>, <<"h", "(">>}

FunctionHeader == <<"f", "u", "n", "c", "t", "i", "o", "n", " ", "f", "(", ")", "{">>

InitBody ==
    /\ AdapterAtRest
    /\ AppAtRest
    /\ ZipAtRest
    /\ filePath = "a.sol"
    /\ source \in {FunctionHeader \o t : t \in TextsFrom(BodyFragments, MaxBodyFrags)}
    /\ content = NoText
    /\ result = NoResult
    /\ stage = "input"
    /\ history = <<>>

SpecBody == InitBody /\ [][NextSol]_vars

-----------------------------------------------------------------------------
(* What the claims about extractSolidityArtifacts speak of, read off the       *)
(* original text and not off the extraction's own intermediate values.         *)

\* The original text with its comments, as CommentPositions finds them, blanked.
CodeText(s) ==
    [k \in 1..Len(s) |->
        IF (k - 1) \in CommentPositions(s) /\ s[k] # "\n" THEN " " ELSE s[k]]

BraceCount(t, ch, from, to) == Cardinality({k \in from..to : At(t, k) = ch})

\* The body of the definition that starts at startIdx: from the first "{" at or
\* after it through the brace that matches it, or through the end of the text
\* when none does; braces inside comments do not count.
BodyOfDefinition(s, startIdx) ==
    LET t == CodeText(s)
        opens == {k \in startIdx..(Len(t) - 1) : At(t, k) = "{"}
    IN IF opens = {} THEN {}
       ELSE LET open == Min(opens)
                closes == {k \in open..(Len(t) - 1) :
                              BraceCount(t, "{", open, k) = BraceCount(t, "}", open, k)}
            IN open..(IF closes = {} THEN Len(t) - 1 ELSE Min(closes))

\* The functions, modifiers and constructors the extraction found: the name and
\* the start of every 'Method' definition.
MethodsFound == {d \in result.seenDefs : d[1] = "Method"}

CallRecords == {result.calls[k] : k \in 1..Len(result.calls)}

\* The positions of the original text where an identifier followed by "("
\* starts.
CallSites(s) == {i \in 0..(Len(s) - 1) : CallMatchAt(s, i).ok}

\* C1: every call record has the Method id of a function, modifier or
\* constructor found in the file whose body, opening brace to matching closing
\* brace, contains the call site; no call record has the File id; an
\* identifier followed by "(" outside every such body has no call record.
C1_CallsAttributedToEnclosingBody ==
    stage = "extracted" =>
        /\ \A c \in CallRecords :
              /\ c.sourceId # FileSourceId(filePath)
              /\ \E d \in MethodsFound :
                    /\ c.sourceId = generateId("Method", PathKey(filePath, d[2]))
                    /\ c.site \in BodyOfDefinition(source, d[3])
        /\ \A i \in CallSites(source) :
              (\A d \in MethodsFound : i \notin BodyOfDefinition(source, d[3]))
                 => \A c \in CallRecords : c.site # i

\* C5: two distinct definitions with a body found by one extraction never have
\* the same id, so that the sourceId of a call names one definition.
C5_DistinctDefinitionsDistinctIds ==
    stage = "extracted" =>
        \A i, j \in 1..Len(result.blockRegions) :
            i # j => result.blockRegions[i].sourceId # result.blockRegions[j].sourceId

\* C8: an identifier followed by "(" inside a comment yields no call record,
\* and every definition's startLine is the line of its start in the original
\* text.
C8_CommentsYieldNoCalls ==
    stage = "extracted" =>
        /\ \A c \in CallRecords : c.site \notin CommentPositions(source)
        /\ \A d \in result.seenDefs :
              \E k \in 1..Len(result.definitions) :
                  /\ result.definitions[k].label = d[1]
                  /\ result.definitions[k].name = d[2]
                  /\ result.definitions[k].startLine
                        = BraceCount(source, "\n", 0, d[3] - 1)

\* The regions that hold position i, and the innermost of them: the one that
\* starts last.
RegionsHolding(i) ==
    {k \in 1..Len(result.blockRegions) :
        /\ result.blockRegions[k].start >= 0
        /\ result.blockRegions[k].start <= i
        /\ i <= result.blockRegions[k].end}

\* C9: when bodies overlap, a call site yields one call record, whose sourceId
\* is that of the innermost body that holds the site.
C9_OneRecordPerCallSite ==
    stage = "extracted" =>
        /\ \A j, k \in 1..Len(result.calls) :
              result.calls[j].site = result.calls[k].site => j = k
        /\ \A c \in CallRecords :
              \A k \in RegionsHolding(c.site) :
                  (\A l \in RegionsHolding(c.site) :
                       result.blockRegions[l].start <= result.blockRegions[k].start)
                     => c.sourceId = result.blockRegions[k].sourceId

\* Whether the definition that starts at startIdx has an opening brace with no
\* matching closing brace; braces inside comments do not count.
UnclosedBody(s, startIdx) ==
    LET t == CodeText(s)
        opens == {k \in startIdx..(Len(t) - 1) : At(t, k) = "{"}
    IN /\ opens # {}
       /\ \A k \in Min(opens)..(Len(t) - 1) :
             BraceCount(t, "{", Min(opens), k) # BraceCount(t, "}", Min(opens), k)

\* C14: the body region of a function, modifier or constructor whose opening
\* brace has no matching closing brace ends at the last character of the text,
\* its endLine is the line of that character, and the calls of the rest of the
\* text are still returned.
C14_UnclosedBodyRunsToEnd ==
    stage = "extracted" =>
        \A d \in MethodsFound :
            (d[3] \notin CommentPositions(source) /\ UnclosedBody(source, d[3]))
               => /\ \E k \in 1..Len(result.blockRegions) :
                        /\ result.blockRegions[k].name = d[2]
                        /\ result.blockRegions[k].start = Min(BodyOfDefinition(source, d[3]))
                        /\ result.blockRegions[k].end = Len(source) - 1
                  /\ \E k \in 1..Len(result.definitions) :
                        /\ result.definitions[k].label = "Method"
                        /\ result.definitions[k].name = d[2]
                        /\ result.definitions[k].startLine = BraceCount(source, "\n", 0, d[3] - 1)
                        /\ result.definitions[k].endLine
                              = BraceCount(source, "\n", 0, Len(source) - 2)
                  /\ \A i \in CallSites(CodeText(source)) :
                        (/\ i \in BodyOfDefinition(source, d[3])
                         /\ CallMatchAt(CodeText(source), i).name \notin CALL_KEYWORDS
                         /\ CallMatchAt(CodeText(source), i).name # d[2])
                           => \E c \in CallRecords : c.site = i

-----------------------------------------------------------------------------
(* Calls: one function whose body starts with a call and goes on with calls   *)
(* of the keywords and of the function itself, and with a nested definition.  *)

KeywordNames ==
    {<<"i", "f">>, <<"f", "o", "r">>, <<"w", "h", "i", "l", "e">>,
     <<"r", "e", "q", "u", "i", "r", "e">>, <<"a", "s", "s", "e", "r", "t">>,
     <<"r", "e", "v", "e", "r", "t">>, <<"e", "m", "i", "t">>,
     <<"r", "e", "t", "u", "r", "n">>, <<"n", "e", "w">>,
     <<"m", "a", "p", "p", "i", "n", "g">>, <<"p", "a", "y", "a", "b", "l", "e">>,
     <<"u", "n", "c", "h", "e", "c", "k", "e", "d">>,
     <<"d", "e", "l", "e", "t", "e">>}

CallFragments ==
    {kw \o <<"(">> : kw \in KeywordNames}
        \cup {<<"f", "(">>,
              <<"f", "u", "n", "c", "t", "i", "o", "n", " ", "g", "(", ")", "{">>}

CallsHeader == FunctionHeader \o <<"h", " ", "(">>

InitCalls ==
    /\ AdapterAtRest
    /\ AppAtRest
    /\ ZipAtRest
    /\ filePath = "a.sol"
    /\ source \in {CallsHeader \o t : t \in TextsFrom(CallFragments, MaxCallFrags)}
    /\ content = NoText
    /\ result = NoResult
    /\ stage = "input"
    /\ history = <<>>

SpecCalls == InitCalls /\ [][NextSol]_vars

\* C15: no call record has a calledName of the keyword set, nor the name of
\* the definition in whose body it was found (the one its sourceId names).
C15_NoKeywordNoSelfCalls ==
    stage = "extracted" =>
        \A c \in CallRecords :
            /\ c.calledName \notin KeywordNames
            /\ c.sourceId # generateId("Method", PathKey(filePath, c.calledName))

\* C15's case: the body holds a call of a keyword and a call of the function's
\* own name, and a call that is recorded.
C15_Witness ==
    /\ stage = "extracted"
    /\ \E i, j \in CallSites(source) :
          /\ CallMatchAt(source, i).name \in KeywordNames
          /\ CallMatchAt(source, j).name = <<"f">>
          /\ j > Len(FunctionHeader)
          /\ \A c \in CallRecords : c.site # i /\ c.site # j
    /\ CallRecords # {}

-----------------------------------------------------------------------------
(* The heritage of a contract: a declaration with an 'is' clause put together *)
(* from parent names, argument lists, commas, blanks and the opening brace.   *)

HeritageHeader ==
    <<"c", "o", "n", "t", "r", "a", "c", "t", " ", "C", " ", "i", "s", " ">>

ParentFragments ==
    {<<"A">>, <<"B">>, <<"(", "1", ")">>, <<"(", "1", ",", " ", "2", ")">>,
     <<",", " ">>, <<" ">>, <<"{">>}

InitHeritage ==
    /\ AdapterAtRest
    /\ AppAtRest
    /\ ZipAtRest
    /\ filePath = "a.sol"
    /\ source \in {HeritageHeader \o t : t \in TextsFrom(ParentFragments, MaxParentFrags)}
    /\ content = NoText
    /\ result = NoResult
    /\ stage = "input"
    /\ history = <<>>

SpecHeritage == InitHeritage /\ [][NextSol]_vars

\* The parent clause of the declaration: the text after 'is' up to the opening
\* brace, a semicolon or the end of the text.
ParentClause(s) ==
    Slice(s, Len(HeritageHeader), SkipUntil(s, Len(HeritageHeader), {"{", ";"}))

\* The parents of a clause: its pieces between the commas that stand outside
\* every argument list.  cur is the piece read so far, depth the number of
\* open parentheses.
RECURSIVE SplitParents(_, _, _, _)
SplitParents(c, i, depth, cur) ==
    IF i >= Len(c) THEN <<cur>>
    ELSE IF At(c, i) = "," /\ depth = 0
         THEN <<cur>> \o SplitParents(c, i + 1, 0, <<>>)
    ELSE SplitParents(c, i + 1,
                      IF At(c, i) = "(" THEN depth + 1
                      ELSE IF At(c, i) = ")" THEN depth - 1 ELSE depth,
                      Append(cur, At(c, i)))

Parents(s) == SplitParents(ParentClause(s), 0, 0, <<>>)

\* The bare name of a parent: its leading identifier.
BareName(parent) ==
    LET t == Trim(parent) IN Slice(t, 0, SkipWhile(t, 0, WordChar))

\* A parent as Solidity writes it: a name, then nothing or an argument list.
IsParent(parent) ==
    LET t == Trim(parent)
        rest == Trim(Slice(t, Len(BareName(parent)), Len(t)))
    IN /\ At(t, 0) \in IdStart
       /\ rest = <<>> \/ (At(rest, 0) = "(" /\ At(rest, Len(rest) - 1) = ")")

\* C13: a declaration with an 'is' clause yields one heritage record per parent
\* of its comma-separated parent list, and each parentName is the parent's
\* bare name; an argument list adds neither characters nor records.
C13_OneRecordPerParentBareName ==
    (/\ stage = "extracted"
     /\ \A k \in 1..Len(Parents(source)) : IsParent(Parents(source)[k]))
        => result.heritage =
              [k \in 1..Len(Parents(source)) |->
                  [className |-> <<"C">>,
                   parentName |-> BareName(Parents(source)[k]),
                   kind |-> "extends"]]

-----------------------------------------------------------------------------
(* The end-to-end example: the two files of the example, and around them      *)
(* every text that lacks one character of one of them, each extracted under   *)
(* either path.                                                               *)

\* contract A { function f() public { g(); } }
ExampleA ==
    <<"c", "o", "n", "t", "r", "a", "c", "t", " ", "A", " ", "{",
      " ", "f", "u", "n", "c", "t", "i", "o", "n", " ", "f", "(",
      ")", " ", "p", "u", "b", "l", "i", "c", " ", "{", " ", "g",
      "(", ")", ";", " ", "}", " ", "}">>

\* contract B is A { function g() external {} }
ExampleB ==
    <<"c", "o", "n", "t", "r", "a", "c", "t", " ", "B", " ", "i",
      "s", " ", "A", " ", "{", " ", "f", "u", "n", "c", "t", "i",
      "o", "n", " ", "g", "(", ")", " ", "e", "x", "t", "e", "r",
      "n", "a", "l", " ", "{", "}", " ", "}">>

Dropped(s) == {SubSeq(s, 1, k - 1) \o SubSeq(s, k + 1, Len(s)) : k \in 1..Len(s)}

ExampleSources == {ExampleA, ExampleB} \cup Dropped(ExampleA) \cup Dropped(ExampleB)

InitExample ==
    /\ AdapterAtRest
    /\ AppAtRest
    /\ ZipAtRest
    /\ filePath \in {"a.sol", "b.sol"}
    /\ source \in ExampleSources
    /\ content = NoText
    /\ result = NoResult
    /\ stage = "input"
    /\ history = <<>>

SpecExample == InitExample /\ [][NextSol]_vars

LabelledNames(definitions) ==
    {<<definitions[k].label, definitions[k].name>> : k \in 1..Len(definitions)}

\* C17: on the end-to-end example the extractor returns, for a.sol, exactly the
\* definitions Class A and Method f and exactly one call, of g, whose sourceId
\* is the Method id of f; for b.sol, exactly Class B and Method g, exactly one
\* heritage record, B extends A, and no call.
C17_EndToEndExample ==
    stage = "extracted" =>
        /\ (filePath = "a.sol" /\ source = ExampleA) =>
              /\ Len(result.definitions) = 2
              /\ LabelledNames(result.definitions) =
                    {<<"Class", <<"A">>>>, <<"Method", <<"f">>>>}
              /\ Len(result.calls) = 1
              /\ result.calls[1].calledName = <<"g">>
              /\ result.calls[1].sourceId =
                    generateId("Method", PathKey("a.sol", <<"f">>))
        /\ (filePath = "b.sol" /\ source = ExampleB) =>
              /\ Len(result.definitions) = 2
              /\ LabelledNames(result.definitions) =
                    {<<"Class", <<"B">>>>, <<"Method", <<"g">>>>}
              /\ result.heritage =
                    <<[className |-> <<"B">>, parentName |-> <<"A">>,
                       kind |-> "extends"]>>
              /\ result.calls = <<>>

\* C17's case: a.sol of the example has been extracted and its call found.
C17_Witness ==
    /\ stage = "extracted"
    /\ filePath = "a.sol"
    /\ source = ExampleA
    /\ Len(result.calls) = 1

-----------------------------------------------------------------------------
(* The extractor called again and again: after a call, another file is        *)
(* handed to it, the same as an earlier one or not.                           *)

MaxExtractions == 3

\* The two files of the example, and the first of them one line further down.
RepeatSources == {ExampleA, ExampleB, <<"\n">> \o ExampleA}

InitRepeat ==
    /\ AdapterAtRest
    /\ AppAtRest
    /\ ZipAtRest
    /\ filePath \in {"a.sol", "b.sol"}
    /\ source \in RepeatSources
    /\ content = NoText
    /\ result = NoResult
    /\ stage = "input"
    /\ history = <<>>

\* The caller moves on to the next file.
NextFile ==
    /\ stage = "extracted"
    /\ Len(history) < MaxExtractions
    /\ filePath' \in {"a.sol", "b.sol"}
    /\ source' \in RepeatSources
    /\ content' = NoText
    /\ result' = NoResult
    /\ stage' = "input"
    /\ UNCHANGED history
    /\ UNCHANGED <<kuzuVars, appVars, zipVars>>

NextRepeat == Extract \/ NextFile

SpecRepeat == InitRepeat /\ [][NextRepeat]_vars

DefinitionSet(r) == {r.definitions[k] : k \in 1..Len(r.definitions)}

CallSourceIds(r) == [k \in 1..Len(r.calls) |-> r.calls[k].sourceId]

-----------------------------------------------------------------------------
(* Signatures: a function or a constructor whose parameter list and tail are  *)
(* put together from pieces, a parameter of function type among them.         *)

MaxTailFrags == 4

TailHeaders ==
    {<<"f", "u", "n", "c", "t", "i", "o", "n", " ", "f", "(">>,
     <<"c", "o", "n", "s", "t", "r", "u", "c", "t", "o", "r", "(">>}

\* function() external g   )   uint a   public   internal   {
TailFragments ==
    {<<"f", "u", "n", "c", "t", "i", "o", "n", "(", ")", " ", "e", "x", "t", "e", "r", "n", "a", "l", " ", "g">>,
     <<")">>, <<"u", "i", "n", "t", " ", "a">>,
     <<" ", "p", "u", "b", "l", "i", "c">>,
     <<" ", "i", "n", "t", "e", "r", "n", "a", "l">>, <<"{">>}

InitTail ==
    /\ AdapterAtRest
    /\ AppAtRest
    /\ ZipAtRest
    /\ filePath = "a.sol"
    /\ source \in {h \o t : h \in TailHeaders, t \in TextsFrom(TailFragments, MaxTailFrags)}
    /\ content = NoText
    /\ result = NoResult
    /\ stage = "input"
    /\ history = <<>>

SpecTail == InitTail /\ [][NextSol]_vars

\* The ")" that closes the "(" at or after position i, parentheses nesting.
RECURSIVE ParenClose(_, _, _)
ParenClose(s, i, depth) ==
    IF i >= Len(s) THEN -1
    ELSE IF At(s, i) = "(" THEN ParenClose(s, i + 1, depth + 1)
    ELSE IF At(s, i) = ")"
         THEN IF depth = 1 THEN i ELSE ParenClose(s, i + 1, depth - 1)
    ELSE ParenClose(s, i + 1, depth)

\* Where the parameter list of the definition at the start of s ends, and
\* where its body opens; -1 when it does not.
ParameterListEnd(s) == ParenClose(s, indexOf(s, "(", 0), 0)

BodyOpen(s) ==
    IF ParameterListEnd(s) < 0 THEN -1 ELSE indexOf(s, "{", ParameterListEnd(s) + 1)

TailOfSignature(s) == Slice(s, ParameterListEnd(s) + 1, BodyOpen(s))

\* C20: a function or constructor definition the extractor returns has
\* isExported = true exactly when the signature tail, from the ")" that closes
\* its parameter list to the "{" that opens its body, holds the word public
\* or the word external.
C20_ExportedIffVisibilityInTail ==
    (stage = "extracted" /\ BodyOpen(source) >= 0)
        => \A k \in 1..Len(result.definitions) :
              result.definitions[k].isExported = HasVisibility(TailOfSignature(source))

-----------------------------------------------------------------------------
(* extractZip (part_000, lines 9-32).  The archive is the sequence of its     *)
(* entries in the order zip.forEach visits them; every processEntry call runs *)
(* up to its await inside forEach, and the decodes of the entries complete in *)
(* whatever order the decoder finishes them.                                  *)

MaxEntries == 3

\* What an archive may hold: two files, a directory and a file in a
\* directory that is ignored.
ZipEntries ==
    {[path |-> "a.sol", dir |-> FALSE], [path |-> "b.sol", dir |-> FALSE],
     [path |-> "src/", dir |-> TRUE], [path |-> "node_modules/x.js", dir |-> FALSE]}

\* shouldIgnorePath of config/ignore-service, which is not among the sources:
\* some fixed set of paths.
IgnoredPaths == {"node_modules/x.js"}

shouldIgnorePath(path) == path \in IgnoredPaths

\* entry.async('string'): the text of the entry.
Decoded(entry) == <<"text of", entry.path>>

\* The archives: up to MaxEntries entries with distinct paths, in any order.
Archives ==
    UNION {{a \in [1..n -> ZipEntries] : \A i, j \in 1..n : a[i] = a[j] => i = j}
              : n \in 0..MaxEntries}

InitZip ==
    /\ AdapterAtRest
    /\ AppAtRest
    /\ filePath = "a.sol"
    /\ source = NoText
    /\ content = NoText
    /\ result = NoResult
    /\ stage = "input"
    /\ history = <<>>
    /\ zip \in Archives
    /\ promises = <<>>
    /\ files = <<>>
    /\ zipStage = "loading"

\* processEntry up to its await (lines 14-18): a directory or an ignored path
\* returns at once, otherwise the decode is awaited.
Started(entry) ==
    IF entry.dir \/ shouldIgnorePath(entry.path) THEN "fulfilled" ELSE "decoding"

\* JSZip.loadAsync(file) settled (line 10); on success zip.forEach calls
\* processEntry for every entry (lines 26-28) and Promise.all is awaited.
ZipLoaded ==
    /\ zipStage = "loading"
    /\ \E ok \in BOOLEAN :
          IF ok
          THEN /\ promises' = [i \in 1..Len(zip) |-> Started(zip[i])]
               /\ zipStage' = "awaiting"
          ELSE /\ promises' = promises
               /\ zipStage' = "rejected"
    /\ UNCHANGED <<zip, files>>

\* processEntry after its await (lines 18-23): the decode of entry i completed
\* and the entry is pushed; or the decode failed and the promise rejects.
DecodeDone(i) ==
    /\ zipStage \in {"awaiting", "rejected"}
    /\ i \in 1..Len(promises)
    /\ promises[i] = "decoding"
    /\ promises' = [promises EXCEPT ![i] = "fulfilled"]
    /\ files' = Append(files, [path |-> zip[i].path, content |-> Decoded(zip[i])])
    /\ UNCHANGED <<zip, zipStage>>

DecodeFailed(i) ==
    /\ zipStage \in {"awaiting", "rejected"}
    /\ i \in 1..Len(promises)
    /\ promises[i] = "decoding"
    /\ promises' = [promises EXCEPT ![i] = "rejected"]
    /\ UNCHANGED <<zip, files, zipStage>>

\* await Promise.all(promises); return files  (lines 30-31): fulfilled once
\* every promise is, rejected once one is.
AllSettled ==
    /\ zipStage = "awaiting"
    /\ IF \E i \in 1..Len(promises) : promises[i] = "rejected"
       THEN zipStage' = "rejected"
       ELSE /\ \A i \in 1..Len(promises) : promises[i] = "fulfilled"
            /\ zipStage' = "returned"
    /\ UNCHANGED <<zip, promises, files>>

NextZip ==
    \/ ZipLoaded /\ UNCHANGED <<kuzuVars, solVars, appVars>>
    \/ \E i \in 1..MaxEntries : DecodeDone(i) /\ UNCHANGED <<kuzuVars, solVars, appVars>>
    \/ \E i \in 1..MaxEntries : DecodeFailed(i) /\ UNCHANGED <<kuzuVars, solVars, appVars>>
    \/ AllSettled /\ UNCHANGED <<kuzuVars, solVars, appVars>>

SpecZip == InitZip /\ [][NextZip]_vars

\* The entries of the archive that are no directory and are not ignored, in
\* the archive's order.
RECURSIVE Kept(_)
Kept(entries) ==
    IF entries = <<>> THEN <<>>
    ELSE IF Head(entries).dir \/ shouldIgnorePath(Head(entries).path)
         THEN Kept(Tail(entries))
         ELSE <<Head(entries).path>> \o Kept(Tail(entries))

\* C26: what extractZip returns holds exactly one entry for each entry of the
\* archive that is no directory and whose path is not ignored, in the order in
\* which the archive lists them, in whatever order the decodes completed.
C26_OneEntryEachInArchiveOrder ==
    zipStage = "returned" =>
        [k \in 1..Len(files) |-> files[k].path] = Kept(zip)

-----------------------------------------------------------------------------
(* The app: handleFileSelect (lines 230-264) over the state of                *)
(* AppStateProvider (lines 498-533) and the hook useIngestionWorker (lines    *)
(* 324-445).  The pipeline runs in the Worker; what it answers (progress      *)
(* events, a result, an error) is the environment's choice.  A terminated     *)
(* Worker runs no script and delivers no message.  DropZone, which calls      *)
(* handleFileSelect, is rendered only in viewMode 'onboarding' (lines         *)
(* 270-272).                                                                   *)

MaxRuns == 2

\* The names DropZone hands to onFileSelect end in '.zip' (part_000, lines
\* 63-64 and 75-76).
FileNames ==
    {<<"r", ".", "z", "i", "p">>, <<".", "z", "i", "p">>,
     <<".", "z", "i", "p", ".", "z", "i", "p">>}

DotZip == <<".", "z", "i", "p">>

\* file.name.replace('.zip', ''): the first occurrence is removed (line 232).
ReplaceDotZip(name) ==
    LET hits == {i \in 0..(Len(name) - 1) : StartsWith(name, i, DotZip)}
    IN IF hits = {} THEN name
       ELSE Slice(name, 0, Min(hits)) \o Slice(name, Min(hits) + Len(DotZip), Len(name))

\* throw new Error('Worker not initialized')  (lines 364-366, 401-403)
NotInitialized == [isError |-> TRUE, message |-> "Worker not initialized"]

\* What the pipeline in the Worker can throw: an Error, or a value that is none.
PipelineErrors ==
    {[isError |-> TRUE, message |-> "pipeline failed"],
     [isError |-> FALSE, message |-> "a thrown string"]}

ProgressPhases == {"extracting", "complete"}

\* error instanceof Error ? error.message : 'Unknown error'  (line 255)
ErrorDetail(error) == IF error.isError THEN error.message ELSE "Unknown error"

\* The catch block, were it to show the graph view as the try block does.
Catch_Explores(r, error) ==
    /\ progress' = [phase |-> "error", detail |-> ErrorDetail(error), of |-> runs']
    /\ viewMode' = "exploring"
    /\ timer' = FALSE
    /\ run' = [r EXCEPT !.pc = "failed", !.error = error, !.explored = TRUE]
    /\ UNCHANGED <<graph, fileContents>>

\* The catch block of lines 249-262 for the run r: the error progress is set
\* and the reset is scheduled.  viewMode stays 'loading'.
Catch(r, error) ==
    /\ progress' = [phase |-> "error", detail |-> ErrorDetail(error), of |-> runs']
    /\ viewMode' = "loading"
    /\ timer' = TRUE
    /\ run' = [r EXCEPT !.pc = "failed", !.error = error]
    /\ UNCHANGED <<graph, fileContents>>

\* handleFileSelect(file) up to its await (lines 230-241).  With no remote,
\* runPipelineInWorker throws at line 365 and the catch block runs at once.
HandleFileSelect(file) ==
    /\ mounted
    /\ viewMode = "onboarding"
    /\ runs < MaxRuns
    /\ runs' = runs + 1
    /\ projectName' = ReplaceDotZip(file)
    /\ LET r == [file |-> file, pc |-> "awaiting", error |-> NoError,
                 afterClear |-> worker = "terminated",
                 graphBefore |-> graph, filesBefore |-> fileContents,
                 explored |-> FALSE, lastResolved |-> run.lastResolved]
       IN IF apiRef = "null"
          THEN Catch(r, NotInitialized)
          ELSE /\ run' = r
               /\ viewMode' = "loading"
               /\ UNCHANGED <<graph, fileContents, progress, timer>>
    /\ UNCHANGED <<workerRef, apiRef, worker, mounted, hookCall>>

\* The Worker calls the proxied onProgress: setProgress(progress), lines 239-241.
OnProgress(phase) ==
    /\ worker = "running"
    /\ run.pc = "awaiting"
    /\ progress' = [phase |-> phase, detail |-> "", of |-> runs]
    /\ UNCHANGED <<viewMode, graph, fileContents, projectName, workerRef, apiRef,
                   worker, mounted, run, timer, hookCall, runs>>

\* The try block after its await, were it to store the graph only.
PipelineResolves_GraphOnly ==
    /\ worker = "running"
    /\ run.pc = "awaiting"
    /\ graph' = runs
    /\ fileContents' = fileContents
    /\ viewMode' = "exploring"
    /\ run' = [run EXCEPT !.pc = "resolved", !.explored = TRUE, !.lastResolved = runs]
    /\ UNCHANGED <<progress, projectName, workerRef, apiRef, worker, mounted,
                   timer, hookCall, runs>>

\* The Worker's pipeline resolved: lines 373-376, then lines 243-248.  The
\* graph and the file contents of the run are held as the run's number.
PipelineResolves ==
    /\ worker = "running"
    /\ run.pc = "awaiting"
    /\ graph' = runs
    /\ fileContents' = runs
    /\ viewMode' = "exploring"
    /\ run' = [run EXCEPT !.pc = "resolved", !.explored = TRUE, !.lastResolved = runs]
    /\ UNCHANGED <<progress, projectName, workerRef, apiRef, worker, mounted,
                   timer, hookCall, runs>>

\* The Worker's pipeline rejected: the await of line 373 throws, lines 249-262.
PipelineRejects(error) ==
    /\ worker = "running"
    /\ run.pc = "awaiting"
    /\ UNCHANGED <<projectName, workerRef, apiRef, worker, mounted, hookCall, runs>>
    /\ Catch(run, error)

\* The callback of setTimeout, lines 258-261.  The setters of an unmounted
\* component change nothing.
TimerFires ==
    /\ timer
    /\ timer' = FALSE
    /\ IF mounted
       THEN /\ viewMode' = "onboarding"
            /\ progress' = NoProgress
       ELSE UNCHANGED <<viewMode, progress>>
    /\ UNCHANGED <<graph, fileContents, projectName, workerRef, apiRef, worker,
                   mounted, run, hookCall, runs>>

\* terminateWorker, were it to leave the remote in place.
TerminateWorker_KeepsApi ==
    /\ hookCall' = [fn |-> "terminateWorker", afterClear |-> worker = "terminated",
                    answer |-> "returned"]
    /\ IF workerRef # "null"
       THEN /\ worker' = "terminated"
            /\ workerRef' = "null"
            /\ UNCHANGED apiRef
       ELSE UNCHANGED <<worker, workerRef, apiRef>>
    /\ UNCHANGED <<viewMode, graph, fileContents, progress, projectName, mounted,
                   run, timer, runs>>

\* terminateWorker, lines 384-390.
TerminateWorker ==
    /\ hookCall' = [fn |-> "terminateWorker", afterClear |-> worker = "terminated",
                    answer |-> "returned"]
    /\ IF workerRef # "null"
       THEN /\ worker' = "terminated"
            /\ workerRef' = "null"
            /\ apiRef' = "null"
       ELSE UNCHANGED <<worker, workerRef, apiRef>>
    /\ UNCHANGED <<viewMode, graph, fileContents, progress, projectName, mounted,
                   run, timer, runs>>

\* The cleanup of the mount effect, lines 344-348.
Unmount ==
    /\ mounted
    /\ mounted' = FALSE
    /\ worker' = "terminated"
    /\ workerRef' = "null"
    /\ apiRef' = "null"
    /\ UNCHANGED <<viewMode, graph, fileContents, progress, projectName, run,
                   timer, hookCall, runs>>

\* runQuery(cypher), lines 398-406.
RunQuery ==
    /\ hookCall' = [fn |-> "runQuery", afterClear |-> worker = "terminated",
                    answer |-> IF apiRef = "null"
                               THEN "rejected: Worker not initialized"
                               ELSE "forwarded"]
    /\ UNCHANGED <<viewMode, graph, fileContents, progress, projectName, workerRef,
                   apiRef, worker, mounted, run, timer, runs>>

\* isDatabaseReady(), lines 411-423.
IsDatabaseReady ==
    /\ hookCall' = [fn |-> "isDatabaseReady", afterClear |-> worker = "terminated",
                    answer |-> IF apiRef = "null" THEN "false" ELSE "forwarded"]
    /\ UNCHANGED <<viewMode, graph, fileContents, progress, projectName, workerRef,
                   apiRef, worker, mounted, run, timer, runs>>

\* getDatabaseStats(), lines 428-436.
GetDatabaseStats ==
    /\ hookCall' = [fn |-> "getDatabaseStats", afterClear |-> worker = "terminated",
                    answer |-> IF apiRef = "null"
                               THEN "{ nodes: 0, edges: 0 }"
                               ELSE "forwarded"]
    /\ UNCHANGED <<viewMode, graph, fileContents, progress, projectName, workerRef,
                   apiRef, worker, mounted, run, timer, runs>>

InitApp ==
    /\ AdapterAtRest
    /\ AppAtRest
    /\ ZipAtRest
    /\ filePath = "a.sol"
    /\ source = NoText
    /\ content = NoText
    /\ result = NoResult
    /\ stage = "input"
    /\ history = <<>>

NextApp ==
    \/ \E file \in FileNames : HandleFileSelect(file) /\ UNCHANGED <<kuzuVars, solVars, zipVars>>
    \/ \E phase \in ProgressPhases : OnProgress(phase) /\ UNCHANGED <<kuzuVars, solVars, zipVars>>
    \/ PipelineResolves /\ UNCHANGED <<kuzuVars, solVars, zipVars>>
    \/ \E error \in PipelineErrors : PipelineRejects(error) /\ UNCHANGED <<kuzuVars, solVars, zipVars>>
    \/ TimerFires /\ UNCHANGED <<kuzuVars, solVars, zipVars>>
    \/ TerminateWorker /\ UNCHANGED <<kuzuVars, solVars, zipVars>>
    \/ Unmount /\ UNCHANGED <<kuzuVars, solVars, zipVars>>
    \/ RunQuery /\ UNCHANGED <<kuzuVars, solVars, zipVars>>
    \/ IsDatabaseReady /\ UNCHANGED <<kuzuVars, solVars, zipVars>>
    \/ GetDatabaseStats /\ UNCHANGED <<kuzuVars, solVars, zipVars>>

SpecApp == InitApp /\ [][NextApp]_vars

\* The timeout of line 258 fires once its delay has passed.
SpecAppLive == SpecApp /\ WF_vars(TimerFires /\ UNCHANGED <<kuzuVars, solVars, zipVars>>)

\* C16: when the pipeline run started by handleFileSelect rejects, progress is
\* set to phase 'error' with the error's message as detail ('Unknown error' for
\* a value that is no Error), graph and fileContents stay as they were, the run
\* never shows viewMode 'exploring', and the app, while mounted, eventually is
\* back in viewMode 'onboarding' with progress null.
C16_RejectedRunShowsErrorThenResets ==
    /\ [](run.pc = "failed" =>
            /\ graph = run.graphBefore
            /\ fileContents = run.filesBefore
            /\ ~run.explored
            /\ viewMode # "exploring"
            /\ timer =>
                  /\ progress.phase = "error"
                  /\ run.error.isError => progress.detail = run.error.message
                  /\ ~run.error.isError => progress.detail = "Unknown error")
    /\ (run.pc = "failed") ~>
          (~mounted \/ (viewMode = "onboarding" /\ progress = NoProgress))

\* C16's case: the Worker's pipeline threw a value that is no Error, and the
\* error is on display.
C16_Witness ==
    /\ run.pc = "failed"
    /\ ~run.error.isError
    /\ ~run.afterClear
    /\ progress.detail = "Unknown error"
    /\ timer

\* C18: once the Worker is terminated (terminateWorker, or the hook's unmount)
\* both references are cleared for good; every later runPipelineInWorker and
\* runQuery rejects with 'Worker not initialized', isDatabaseReady answers
\* false, getDatabaseStats answers { nodes: 0, edges: 0 }, and a run that was
\* awaiting the Worker stays without a result.
C18_TerminatedWorkerStaysCleared ==
    /\ worker = "terminated" =>
          /\ workerRef = "null"
          /\ apiRef = "null"
          /\ run.pc = "awaiting" => (graph = run.graphBefore /\ ~run.explored)
    /\ run.afterClear =>
          (run.pc = "failed" /\ run.error = NotInitialized)
    /\ hookCall.afterClear =>
          /\ hookCall.fn = "runQuery" =>
                hookCall.answer = "rejected: Worker not initialized"
          /\ hookCall.fn = "isDatabaseReady" => hookCall.answer = "false"
          /\ hookCall.fn = "getDatabaseStats" =>
                hookCall.answer = "{ nodes: 0, edges: 0 }"

\* C18's case: a run was awaiting the Worker when it was terminated, and a
\* query was made afterwards.
C18_Witness ==
    /\ worker = "terminated"
    /\ run.pc = "awaiting"
    /\ hookCall.fn = "runQuery"
    /\ hookCall.afterClear

\* C24: whenever the graph view is shown, graph is set, and graph and
\* fileContents are those of the most recent run of the pipeline that
\* resolved; a run that rejected leaves graph and fileContents as they were.
C24_ExploringShowsLastResolvedRun ==
    /\ viewMode = "exploring" =>
          /\ graph # Null
          /\ run.lastResolved > 0
          /\ graph = run.lastResolved
          /\ fileContents = run.lastResolved
    /\ run.pc = "failed" =>
          /\ graph = run.graphBefore
          /\ fileContents = run.filesBefore

\* C24's case: a first run rejected, the second resolved and its graph is
\* on display.
C24_Witness ==
    /\ viewMode = "exploring"
    /\ run.pc = "resolved"
    /\ runs = 2
    /\ graph = 2
    /\ mounted

\* What AppContent renders, lines 270-299.
Rendered ==
    IF viewMode = "onboarding" THEN "DropZone"
    ELSE IF viewMode = "loading" /\ progress # NoProgress THEN "LoadingOverlay"
    ELSE "exploring layout"

\* C25: the layout of the graph view (Header, GraphCanvas, the panels) is
\* rendered only in viewMode 'exploring'; in viewMode 'loading' the loading
\* overlay is rendered, and the progress it shows is that of the current run,
\* never that of an earlier one.
C25_LayoutFollowsViewMode ==
    mounted =>
        /\ Rendered = "exploring layout" => viewMode = "exploring"
        /\ viewMode = "loading" =>
              /\ Rendered = "LoadingOverlay"
              /\ progress.of = runs

=============================================================================
